---- MODULE Spec2Model ----
(***************************************************************************)
(* Model of flowheater's analysis pass (analyze.go): the resolver catalog  *)
(* builder, the parameter resolution engine that turns an endpoint's       *)
(* parameter declarations into a deduplicated list of extraction steps,    *)
(* and the output contract analyzer.                                       *)
(*                                                                         *)
(* The recursion resolveParams -> resolveParam -> resolveResolvableParam   *)
(* -> resolveParams is modelled with an explicit call stack: one frame per *)
(* active resolveParams call, all frames sharing the step list inputParams.*)
(***************************************************************************)
EXTENDS Integers, Sequences, FiniteSets

VARIABLES
    pc,              \* position of the pass
    resolvableTypes, \* ResolvableSlice built by analyzeResolvers
    decl,            \* declaration under analysis: a resolver's, then the endpoint's
    inputParams,     \* InputParamSlice of the endpoint under analysis
    stack,           \* active resolveParams calls, innermost last
    expanded,        \* type identities whose resolver inputs were resolved (in call order)
    endpoint,        \* Endpoint returned by analyzeEndpoint, Nil before it returns one
    err,             \* error returned by the failing call, NoError while there is none
    service,         \* Service analyzeService is working on, Nil outside
    endpoints,       \* endpoints analyzeService has gathered for that service
    services,        \* services AnalyzePackage has gathered
    collection,      \* ServiceCollection AnalyzePackage returned, Nil before
    comment,         \* text of the doc comment handed to parseAnnotations
    annotations      \* Annotations parseAnnotations returned, Nil before

\* The state of the loops of AnalyzePackage and analyzeService
pkgVars == <<service, endpoints, services, collection>>

\* The state of parseAnnotations
docVars == <<comment, annotations>>

vars == <<pc, resolvableTypes, decl, inputParams, stack, expanded, endpoint, err,
          pkgVars, docVars>>

----------------------------------------------------------------------------
(* Bounds of the model *)

MaxResolvers == 2   \* resolver declarations of the package
MaxParams == 2      \* input parameters of the endpoint
MaxDepth == 4       \* nested resolveParams calls followed before the model stops
MaxOutputs == 3     \* output parameters of a declaration, where all shapes are drawn
MaxWiring == 4      \* input parameters of the endpoints of the call-site wiring
MaxLines == 3       \* lines of a doc comment
MaxServices == 2    \* services of the package
MaxEndpoints == 2   \* endpoints of the package that analyzeEndpoint returns

(* Kinds of extraction steps: analyze.go const block, iota starting at 1 *)
KindStringParam == 1
KindConvertParam == 2
KindResolveParam == 3
KindPayloadParam == 4

NoError == ""
Nil == [nil |-> TRUE]

----------------------------------------------------------------------------
(* Declaration model: what the parser hands to the analysis *)

\* ParamDeclaration, by the values of its accessors
Param(name, typeName, typePackage, depth, builtin) ==
    [Name |-> name, TypeName |-> typeName, TypePackage |-> typePackage,
     PointerDepth |-> depth, IsBuiltIn |-> builtin]

\* A resolver or endpoint declaration: name, inputs and outputs
Declaration(name, inputs, outputs) ==
    [Name |-> name, InputParams |-> inputs, OutputParams |-> outputs]

\* fmt.Sprintf("%d", n) for n >= 0
Digit(n) ==
    CASE n = 0 -> "0" [] n = 1 -> "1" [] n = 2 -> "2" [] n = 3 -> "3"
      [] n = 4 -> "4" [] n = 5 -> "5" [] n = 6 -> "6" [] n = 7 -> "7"
      [] n = 8 -> "8" [] n = 9 -> "9"

RECURSIVE Itoa(_)
Itoa(n) == IF n < 10 THEN Digit(n) ELSE Itoa(n \div 10) \o Digit(n % 10)

----------------------------------------------------------------------------
(* Output contract *)

isErrorParam(param) == param.IsBuiltIn /\ param.TypeName = "error"

\* analyzeEndpointOutput without the test of the second output
analyzeEndpointOutput_NoSecondCheck(params) ==
    CASE Len(params) = 0 ->
            [value |-> FALSE, error |-> FALSE, err |-> NoError]
      [] Len(params) = 1 ->
            [value |-> ~isErrorParam(params[1]), error |-> isErrorParam(params[1]),
             err |-> NoError]
      [] Len(params) = 2 ->
            [value |-> TRUE, error |-> TRUE, err |-> NoError]
      [] OTHER ->
            [value |-> FALSE, error |-> FALSE,
             err |-> "an endpoint can only return 1 or 2 values: either a value, an error or both"]

\* analyzeEndpointOutput: (returnsValue, returnsError, err)
analyzeEndpointOutput(params) ==
    CASE Len(params) = 0 ->
            [value |-> FALSE, error |-> FALSE, err |-> NoError]
      [] Len(params) = 1 ->
            [value |-> ~isErrorParam(params[1]), error |-> isErrorParam(params[1]),
             err |-> NoError]
      [] Len(params) = 2 ->
            IF ~isErrorParam(params[2])
            THEN [value |-> FALSE, error |-> FALSE,
                  err |-> "the second return value must be of type error"]
            ELSE [value |-> TRUE, error |-> TRUE, err |-> NoError]
      [] OTHER ->
            [value |-> FALSE, error |-> FALSE,
             err |-> "an endpoint can only return 1 or 2 values: either a value, an error or both"]

----------------------------------------------------------------------------
(* Resolver catalog *)

\* analyzeResolver testing the first of two outputs instead of the second
analyzeResolverError_FirstOutput(d) ==
    LET values == d.OutputParams IN
    CASE Len(values) = 1 ->
            IF isErrorParam(values[1])
            THEN "resolver must return a non-error value" ELSE NoError
      [] Len(values) = 2 ->
            IF ~isErrorParam(values[1])
            THEN "second return value must be an error" ELSE NoError
      [] OTHER ->
            "a resolver can only return 1 or 2 values: a value or a value and an error"

\* The error analyzeResolver returns for a declaration, NoError if it accepts it
analyzeResolverError(d) ==
    LET values == d.OutputParams IN
    CASE Len(values) = 1 ->
            IF isErrorParam(values[1])
            THEN "resolver must return a non-error value" ELSE NoError
      [] Len(values) = 2 ->
            IF ~isErrorParam(values[2])
            THEN "second return value must be an error" ELSE NoError
      [] OTHER ->
            "a resolver can only return 1 or 2 values: a value or a value and an error"

\* The ResolvableType analyzeResolver returns for an accepted declaration
analyzeResolverType(d) ==
    LET values == d.OutputParams IN
    [TypeName |-> values[1].TypeName,
     TypePackage |-> values[1].TypePackage,
     Resolver |-> d,
     ReturnsError |-> Len(values) > 1,
     ReturnsPointer |-> values[1].PointerDepth]

analyzeResolver(d) ==
    IF analyzeResolverError(d) # NoError
    THEN [rt |-> Nil, err |-> analyzeResolverError(d)]
    ELSE [rt |-> analyzeResolverType(d), err |-> NoError]

\* ResolvableSlice.FindResolver: index of the first entry of the type, 0 if none
\* FindResolver returning the entry registered last
FindFrom_Last(r, param, k) ==
    LET S == {j \in k..Len(r) : /\ r[j].TypeName = param.TypeName
                                /\ r[j].TypePackage = param.TypePackage}
    IN  IF S = {} THEN 0 ELSE CHOOSE j \in S : \A n \in S : n <= j

RECURSIVE FindFrom(_, _, _)
FindFrom(r, param, k) ==
    IF k > Len(r) THEN 0
    ELSE IF r[k].TypeName = param.TypeName /\ r[k].TypePackage = param.TypePackage
         THEN k
         ELSE FindFrom(r, param, k + 1)

FindResolver(r, param) ==
    LET k == FindFrom(r, param, 1) IN
    IF k = 0 THEN [rt |-> Nil, ok |-> FALSE] ELSE [rt |-> r[k], ok |-> TRUE]

----------------------------------------------------------------------------
(* Extraction steps *)

\* InputVar; Go leaves PointerDepth 0 where the literal does not set it
InputVar(varName, depth) == [VarName |-> varName, PointerDepth |-> depth]

\* InputParam literal, VarName still unassigned
InputParam(kind, paramName, typeName, typePackage, inputVars, resolver, returnsError) ==
    [ParamKind |-> kind, ParamName |-> paramName, VarName |-> "",
     TypeName |-> typeName, TypePackage |-> typePackage, InputVars |-> inputVars,
     Resolver |-> resolver, ReturnsError |-> returnsError]

\* Lowest index of a set of indexes, 0 for the empty set: a range loop's first hit
First(S) == IF S = {} THEN 0 ELSE CHOOSE k \in S : \A j \in S : k <= j

\* movePayloadLast left out: the list stays as resolution built it
movePayloadLast_Skipped(i) == i

\* movePayloadLast exchanging the payload step with the last step
movePayloadLast_Swapped(i) ==
    LET k == First({j \in DOMAIN i : i[j].ParamKind = KindPayloadParam}) IN
    IF k = 0 THEN i
    ELSE [i EXCEPT ![k] = i[Len(i)], ![Len(i)] = i[k]]

\* InputParamSlice.movePayloadLast
movePayloadLast(i) ==
    LET k == First({j \in DOMAIN i : i[j].ParamKind = KindPayloadParam}) IN
    IF k = 0 THEN i
    ELSE SubSeq(i, 1, k - 1) \o SubSeq(i, k + 1, Len(i)) \o <<i[k]>>

\* appendParam naming the step after the list length after the insertion
appendVarName_AfterInsertion(i) == "param" \o Itoa(Len(i) + 1)

\* InputParamSlice.appendParam: the new list and the assigned VarName
appendVarName(i) == "param" \o Itoa(Len(i))

\* appendParam returning the identifier of the step after the one it appended
appendParam_NextName(i, param) ==
    [i |-> Append(i, [param EXCEPT !.VarName = appendVarName(i)]),
     v |-> "param" \o Itoa(Len(i) + 1)]

appendParam(i, param) ==
    [i |-> Append(i, [param EXCEPT !.VarName = appendVarName(i)]),
     v |-> appendVarName(i)]

\* resolveNativeParam without the context.Context case
resolveNativeParam_NoContext(d) ==
    IF d.TypePackage = "net/http" /\ d.TypeName = "Request" /\ d.PointerDepth = 1
    THEN InputVar("r", 0)
    ELSE IF d.TypePackage = "net/http" /\ d.TypeName = "ResponseWriter"
            /\ d.PointerDepth = 0
    THEN InputVar("w", 0)
    ELSE Nil

\* resolveNativeParam that does not look at the pointer depth
resolveNativeParam_AnyDepth(d) ==
    IF d.TypePackage = "net/http" /\ d.TypeName = "Request"
    THEN InputVar("r", 0)
    ELSE IF d.TypePackage = "net/http" /\ d.TypeName = "ResponseWriter"
    THEN InputVar("w", 0)
    ELSE IF d.TypePackage = "context" /\ d.TypeName = "Context"
    THEN InputVar("r.Context()", 0)
    ELSE Nil

\* InputParamSlice.resolveNativeParam: an InputVar, or Nil
resolveNativeParam(d) ==
    IF d.TypePackage = "net/http" /\ d.TypeName = "Request" /\ d.PointerDepth = 1
    THEN InputVar("r", 0)
    ELSE IF d.TypePackage = "net/http" /\ d.TypeName = "ResponseWriter"
            /\ d.PointerDepth = 0
    THEN InputVar("w", 0)
    ELSE IF d.TypePackage = "context" /\ d.TypeName = "Context" /\ d.PointerDepth = 0
    THEN InputVar("r.Context()", 0)
    ELSE Nil

\* The search loop matching the type name against the package
findResolveStep_WrongField(i, rt) ==
    First({j \in DOMAIN i : /\ i[j].ParamKind = KindResolveParam
                            /\ i[j].TypeName = rt.TypePackage
                            /\ i[j].TypePackage = rt.TypeName})

\* The search loop of resolveResolvableParam: index of the resolve step of rt, 0 if none
findResolveStep(i, rt) ==
    First({j \in DOMAIN i : /\ i[j].ParamKind = KindResolveParam
                            /\ i[j].TypeName = rt.TypeName
                            /\ i[j].TypePackage = rt.TypePackage})

\* The first search loop looking for the wrong kind of step
findStringStep_WrongKind(i, d) ==
    First({j \in DOMAIN i : i[j].ParamKind = KindConvertParam /\ i[j].ParamName = d.Name})

\* The first search loop of resolveBuiltinParam
findStringStep(i, d) ==
    First({j \in DOMAIN i : i[j].ParamKind = KindStringParam /\ i[j].ParamName = d.Name})

\* The second search loop looking for the wrong kind of step
findConvertStep_WrongKind(i, d) ==
    First({j \in DOMAIN i : /\ i[j].ParamKind = KindStringParam
                            /\ i[j].ParamName = d.Name
                            /\ i[j].TypeName = d.TypeName})

\* The second search loop of resolveBuiltinParam
findConvertStep(i, d) ==
    First({j \in DOMAIN i : /\ i[j].ParamKind = KindConvertParam
                            /\ i[j].ParamName = d.Name
                            /\ i[j].TypeName = d.TypeName})

\* The search loop of resolvePayloadParam: the first payload step
findPayloadStep(i) ==
    First({j \in DOMAIN i : i[j].ParamKind = KindPayloadParam})

\* InputParamSlice.resolveBuiltinParam: the new list and the returned InputVar
resolveBuiltinParam(i, d) ==
    LET kind == IF d.TypeName = "string" THEN KindStringParam ELSE KindConvertParam
        s == findStringStep(i, d)
        a1 == IF s = 0
              THEN appendParam(i, InputParam(KindStringParam, d.Name, "string", "",
                                             <<>>, "", FALSE))
              ELSE [i |-> i, v |-> i[s].VarName]
        c == findConvertStep(a1.i, d)
        a2 == IF c = 0
              THEN appendParam(a1.i, InputParam(kind, d.Name, d.TypeName, "",
                                                <<InputVar(a1.v, 0)>>, "", TRUE))
              ELSE [i |-> a1.i, v |-> a1.i[c].VarName]
    IN  IF kind = KindStringParam
        THEN [i |-> a1.i, v |-> InputVar(a1.v, d.PointerDepth), err |-> NoError]
        ELSE [i |-> a2.i, v |-> InputVar(a2.v, d.PointerDepth), err |-> NoError]

\* resolvePayloadParam without the conflict error: a payload step of another
\* type does not stop a new one from being appended
resolvePayloadParam_NoConflict(i, d) ==
    LET same == {j \in DOMAIN i : /\ i[j].ParamKind = KindPayloadParam
                                  /\ i[j].TypeName = d.TypeName
                                  /\ i[j].TypePackage = d.TypePackage}
    IN  IF same # {}
        THEN [i |-> i, v |-> InputVar(i[First(same)].VarName, d.PointerDepth),
              err |-> NoError]
        ELSE [i |-> Append(i, [InputParam(KindPayloadParam, d.Name, d.TypeName,
                                          d.TypePackage, <<>>, "", TRUE)
                                  EXCEPT !.VarName = "param" \o Itoa(Len(i))]),
              v |-> InputVar("param" \o Itoa(Len(i)), d.PointerDepth),
              err |-> NoError]

\* resolvePayloadParam comparing the type name alone, not the package
resolvePayloadParam_NameOnly(i, d) ==
    LET p == First({j \in DOMAIN i : i[j].ParamKind = KindPayloadParam}) IN
    IF p # 0
    THEN IF i[p].TypeName = d.TypeName
         THEN [i |-> i, v |-> InputVar(i[p].VarName, d.PointerDepth), err |-> NoError]
         ELSE [i |-> i, v |-> Nil,
               err |-> "cannot resolve param " \o d.Name \o ", because "
                       \o i[p].ParamName \o " is already claiming the payload"]
    ELSE [i |-> Append(i, [InputParam(KindPayloadParam, d.Name, d.TypeName,
                                      d.TypePackage, <<>>, "", TRUE)
                              EXCEPT !.VarName = "param" \o Itoa(Len(i))]),
          v |-> InputVar("param" \o Itoa(Len(i)), d.PointerDepth),
          err |-> NoError]

\* InputParamSlice.resolvePayloadParam: the new list, the InputVar and the error
resolvePayloadParam(i, d) ==
    LET p == findPayloadStep(i) IN
    IF p # 0
    THEN IF i[p].TypeName = d.TypeName /\ i[p].TypePackage = d.TypePackage
         THEN [i |-> i, v |-> InputVar(i[p].VarName, d.PointerDepth), err |-> NoError]
         ELSE [i |-> i, v |-> Nil,
               err |-> "cannot resolve param " \o d.Name \o ", because "
                       \o i[p].ParamName \o " is already claiming the payload"]
    ELSE LET a == appendParam(i, InputParam(KindPayloadParam, d.Name, d.TypeName,
                                            d.TypePackage, <<>>, "", TRUE))
         IN  [i |-> a.i, v |-> InputVar(a.v, d.PointerDepth), err |-> NoError]

\* The pointer check off by one: two levels of indirection pass
pointerError_OffByOne(d) ==
    IF d.PointerDepth > 2
    THEN d.Name \o ": pointers of pointers are not supported"
    ELSE NoError

\* The pointer check that opens resolveParam
pointerError(d) ==
    IF d.PointerDepth > 1
    THEN d.Name \o ": pointers of pointers are not supported"
    ELSE NoError

\* resolveParam returning the requested pointer depth for a reused resolve step
resolveDirect_DepthNotAdjusted(i, d, resolvables) ==
    IF pointerError(d) # NoError
    THEN [i |-> i, v |-> Nil, err |-> pointerError(d)]
    ELSE IF resolveNativeParam(d) # Nil
    THEN [i |-> i, v |-> resolveNativeParam(d), err |-> NoError]
    ELSE IF FindResolver(resolvables, d).ok
    THEN LET rt == FindResolver(resolvables, d).rt
             k == findResolveStep(i, rt)
         IN  [i |-> i, v |-> InputVar(i[k].VarName, d.PointerDepth), err |-> NoError]
    ELSE IF d.IsBuiltIn
    THEN resolveBuiltinParam(i, d)
    ELSE resolvePayloadParam(i, d)

\* resolveParam for a declaration that needs no resolver expansion: the new list,
\* the InputVar and the error. The order of the tests is the order of the code.
resolveDirect(i, d, resolvables) ==
    IF pointerError(d) # NoError
    THEN [i |-> i, v |-> Nil, err |-> pointerError(d)]
    ELSE IF resolveNativeParam(d) # Nil
    THEN [i |-> i, v |-> resolveNativeParam(d), err |-> NoError]
    ELSE IF FindResolver(resolvables, d).ok
    THEN LET rt == FindResolver(resolvables, d).rt
             k == findResolveStep(i, rt)
         IN  [i |-> i,
              v |-> InputVar(i[k].VarName, d.PointerDepth - rt.ReturnsPointer),
              err |-> NoError]
    ELSE IF d.IsBuiltIn
    THEN resolveBuiltinParam(i, d)
    ELSE resolvePayloadParam(i, d)

\* resolveParam reaches line 270: the declaration is resolvable and its resolve
\* step does not exist yet, so the resolver's inputs are resolved first
needsExpansion(i, d, resolvables) ==
    /\ pointerError(d) = NoError
    /\ resolveNativeParam(d) = Nil
    /\ FindResolver(resolvables, d).ok
    /\ findResolveStep(i, FindResolver(resolvables, d).rt) = 0

\* The resolve step resolveResolvableParam appends once the inputs are resolved
resolveStep(d, rt, inputVars) ==
    InputParam(KindResolveParam, d.Name, rt.TypeName, rt.TypePackage, inputVars,
               rt.Resolver.Name, rt.ReturnsError)

----------------------------------------------------------------------------
(* The declarations the analysis is run on *)

StringT(name, depth) == Param(name, "string", "", depth, TRUE)
IntT(name, depth) == Param(name, "int", "", depth, TRUE)
ErrorT == Param("", "error", "", 0, TRUE)
RequestT(name, depth) == Param(name, "Request", "net/http", depth, FALSE)
UserT(name, depth) == Param(name, "User", "app", depth, FALSE)
SessionT(name, depth) == Param(name, "Session", "app", depth, FALSE)
PayloadT(name, pkg) == Param(name, "Payload", pkg, 0, FALSE)

\* Input parameters an endpoint may declare
ParamDecls ==
    { StringT("id", 0), IntT("id", 0),
      RequestT("r", 1), RequestT("r", 2),
      UserT("u", 1), SessionT("s", 0),
      PayloadT("a", "app"), PayloadT("c", "lib") }

\* Sequences over S of length at most n
SeqsUpTo(S, n) == UNION {[1..m -> S] : m \in 0..n}

\* Output lists an endpoint may declare
EndpointOutputs == { <<UserT("", 0), ErrorT>>, <<UserT("", 0), UserT("", 0)>> }

\* Output parameters a declaration may have: values, pointers, the built-in
\* error, a pointer to it, and a package's own type that is named error
OutputDecls ==
    { UserT("", 0), UserT("", 1), StringT("", 0), ErrorT,
      Param("", "error", "", 1, TRUE), Param("", "error", "app", 0, FALSE) }

OutputLists == SeqsUpTo(OutputDecls, MaxOutputs)

\* Go rejects a signature that declares a parameter name twice, the blank
\* identifier excepted, and one that names some parameters and not others
DistinctNames(decls) ==
    \A j, k \in DOMAIN decls :
        /\ decls[j].Name = decls[k].Name => j = k \/ decls[j].Name \in {"", "_"}
        /\ decls[j].Name = "" => decls[k].Name = ""

EndpointInputs == {ins \in SeqsUpTo(ParamDecls, MaxParams) : DistinctNames(ins)}

EndpointDecls ==
    { Declaration("Get", ins, outs) : ins \in EndpointInputs, outs \in EndpointOutputs }

\* Resolver declarations a package may hold: resolvers of User and of Session
\* with native, built-in, resolvable, payload and pointer-of-pointer inputs,
\* some depending on each other or on themselves, and two invalid signatures
ResolverDecls ==
    { Declaration("UserById", <<StringT("id", 0)>>, <<UserT("", 0)>>),
      Declaration("UserOfSession", <<SessionT("s", 0), IntT("id", 0)>>,
                  <<UserT("", 1), ErrorT>>),
      Declaration("UserOfPayload", <<PayloadT("a", "app")>>, <<UserT("", 0), ErrorT>>),
      Declaration("UserOfUser", <<UserT("u", 1)>>, <<UserT("", 0)>>),
      Declaration("SessionById", <<IntT("id", 0)>>, <<SessionT("", 0), ErrorT>>),
      Declaration("SessionOfUser", <<UserT("u", 0)>>, <<SessionT("", 1)>>),
      Declaration("SessionOfRequest", <<RequestT("r", 2)>>, <<SessionT("", 0)>>),
      Declaration("TwoUsers", <<>>, <<UserT("", 0), UserT("", 0)>>),
      Declaration("Triple", <<>>, <<UserT("", 0), SessionT("", 0), ErrorT>>) }

----------------------------------------------------------------------------
(* The pass *)

\* resolveResolvableParam skipping the resolution of the resolver's inputs
Frame_NoInputs(decls, d, rt) ==
    [decls |-> IF rt = Nil THEN decls ELSE <<>>, k |-> 1, inputVars |-> <<>>,
     decl |-> d, rt |-> rt]

\* One active resolveParams call: the declarations, the index of the next one,
\* the InputVars gathered so far, and for a resolver expansion the requesting
\* declaration and the ResolvableType (Nil for the endpoint's own parameters)
Frame(decls, d, rt) ==
    [decls |-> decls, k |-> 1, inputVars |-> <<>>, decl |-> d, rt |-> rt]

Top == stack[Len(stack)]

\* resolveParams never moving on to the next declaration
Advance_SameDeclaration(f, v) == f

\* resolveParams collecting the InputVars in reverse order
Advance_Prepend(f, v) == [f EXCEPT !.k = f.k + 1, !.inputVars = <<v>> \o f.inputVars]

\* The frame after resolveParam returned v for its current declaration
Advance(f, v) == [f EXCEPT !.k = f.k + 1, !.inputVars = Append(f.inputVars, v)]

ReplaceTop(f) == [stack EXCEPT ![Len(stack)] = f]

Init ==
    /\ pc = "analyzeResolvers"
    /\ resolvableTypes = <<>>
    /\ decl = Nil
    /\ inputParams = <<>>
    /\ stack = <<>>
    /\ expanded = <<>>
    /\ endpoint = Nil
    /\ err = NoError
    /\ service = Nil
    /\ endpoints = <<>>
    /\ services = <<>>
    /\ collection = Nil
    /\ comment = <<>>
    /\ annotations = Nil

\* A resolver analyzed on demand, between the services of the package
AnalyzeResolver_Late(d) ==
    /\ pc \in {"analyzeResolvers", "analyzePackage"}
    /\ Len(resolvableTypes) < MaxResolvers
    /\ LET r == analyzeResolver(d) IN
       IF r.err # NoError
       THEN /\ pc' = "failed"
            /\ err' = "analyzing resolver " \o d.Name \o ": " \o r.err
            /\ UNCHANGED resolvableTypes
       ELSE /\ resolvableTypes' = Append(resolvableTypes, r.rt)
            /\ UNCHANGED <<pc, err>>
    /\ decl' = d
    /\ UNCHANGED <<inputParams, stack, expanded, endpoint, pkgVars, docVars>>

\* analyzeResolvers, one iteration of its loop on the next declaration
AnalyzeResolver(d) ==
    /\ pc = "analyzeResolvers"
    /\ Len(resolvableTypes) < MaxResolvers
    /\ LET r == analyzeResolver(d) IN
       IF r.err # NoError
       THEN /\ pc' = "failed"
            /\ err' = "analyzing resolver " \o d.Name \o ": " \o r.err
            /\ UNCHANGED resolvableTypes
       ELSE /\ resolvableTypes' = Append(resolvableTypes, r.rt)
            /\ UNCHANGED <<pc, err>>
    /\ decl' = d
    /\ UNCHANGED <<inputParams, stack, expanded, endpoint, pkgVars, docVars>>

\* analyzeResolvers returns the catalog and analyzeEndpoint is entered with an
\* endpoint declaration: a fresh step list and the call resolveParams(decl.InputParams())
BeginEndpoint(d) ==
    /\ pc = "analyzeResolvers"
    /\ pc' = "resolveParams"
    /\ decl' = d
    /\ inputParams' = <<>>
    /\ stack' = <<Frame(d.InputParams, Nil, Nil)>>
    /\ UNCHANGED <<resolvableTypes, expanded, endpoint, err, pkgVars, docVars>>

\* resolveParam on the current declaration of the innermost resolveParams call,
\* up to its return or up to its call of resolveParams for a resolver's inputs
ResolveParam ==
    /\ pc = "resolveParams"
    /\ Top.k <= Len(Top.decls)
    /\ LET d == Top.decls[Top.k] IN
       IF needsExpansion(inputParams, d, resolvableTypes)
       THEN /\ Len(stack) < MaxDepth
            /\ LET rt == FindResolver(resolvableTypes, d).rt IN
               /\ stack' = Append(stack, Frame(rt.Resolver.InputParams, d, rt))
               /\ expanded' = Append(expanded, <<rt.TypeName, rt.TypePackage>>)
            /\ UNCHANGED <<pc, inputParams, err>>
       ELSE LET r == resolveDirect(inputParams, d, resolvableTypes) IN
            IF r.err # NoError
            THEN /\ pc' = "failed"
                 /\ err' = r.err
                 /\ stack' = <<>>
                 /\ UNCHANGED <<inputParams, expanded>>
            ELSE /\ inputParams' = r.i
                 /\ stack' = ReplaceTop(Advance(Top, r.v))
                 /\ UNCHANGED <<pc, err, expanded>>
    /\ UNCHANGED <<resolvableTypes, decl, endpoint, pkgVars, docVars>>

\* resolveParams for a resolver's inputs returns to resolveResolvableParam, which
\* appends the resolve step and returns its InputVar to the calling resolveParams
ReturnResolvable ==
    /\ pc = "resolveParams"
    /\ Len(stack) > 1
    /\ Top.k > Len(Top.decls)
    /\ LET a == appendParam(inputParams, resolveStep(Top.decl, Top.rt, Top.inputVars))
           v == InputVar(a.v, Top.decl.PointerDepth - Top.rt.ReturnsPointer)
           caller == stack[Len(stack) - 1]
       IN  /\ inputParams' = a.i
           /\ stack' = [SubSeq(stack, 1, Len(stack) - 1)
                            EXCEPT ![Len(stack) - 1] = Advance(caller, v)]
    /\ UNCHANGED <<pc, resolvableTypes, decl, expanded, endpoint, err, pkgVars, docVars>>

\* The Endpoint analyzeEndpoint builds
Endpoint(d, inputVars, params, out) ==
    [FuncName |-> d.Name, InputVars |-> inputVars, InputParams |-> params,
     ReturnsValue |-> out.value, ReturnsError |-> out.error]

\* resolveParams for the endpoint's own parameters returns to analyzeEndpoint,
\* which moves the payload step last, analyzes the outputs and returns
EndEndpoint ==
    /\ pc = "resolveParams"
    /\ Len(stack) = 1
    /\ Top.k > Len(Top.decls)
    /\ LET moved == movePayloadLast(inputParams)
           out == analyzeEndpointOutput(decl.OutputParams)
       IN  /\ inputParams' = moved
           /\ IF out.err # NoError
              THEN /\ pc' = "failed"
                   /\ err' = out.err
                   /\ UNCHANGED endpoint
              ELSE /\ pc' = "done"
                   /\ endpoint' = Endpoint(decl, Top.inputVars, moved, out)
                   /\ UNCHANGED err
    /\ stack' = <<>>
    /\ UNCHANGED <<resolvableTypes, decl, expanded, pkgVars, docVars>>

\* A package declares each resolver once
Undeclared(d) ==
    \A k \in DOMAIN resolvableTypes : resolvableTypes[k].Resolver.Name # d.Name

Next ==
    \/ \E d \in ResolverDecls : Undeclared(d) /\ AnalyzeResolver(d)
    \/ \E d \in EndpointDecls : BeginEndpoint(d)
    \/ ResolveParam
    \/ ReturnResolvable
    \/ EndEndpoint

Spec == Init /\ [][Next]_vars

----------------------------------------------------------------------------
(* The output contract on every output list: analyzeEndpoint on endpoints    *)
(* without inputs, whose resolveParams call has returned                     *)

InitOutput ==
    /\ pc = "resolveParams"
    /\ resolvableTypes = <<>>
    /\ decl \in {Declaration("Get", <<>>, outs) : outs \in OutputLists}
    /\ inputParams = <<>>
    /\ stack = <<Frame(<<>>, Nil, Nil)>>
    /\ expanded = <<>>
    /\ endpoint = Nil
    /\ err = NoError
    /\ service = Nil
    /\ endpoints = <<>>
    /\ services = <<>>
    /\ collection = Nil
    /\ comment = <<>>
    /\ annotations = Nil

NextOutput == EndEndpoint

SpecOutput == InitOutput /\ [][NextOutput]_vars

(* The catalog builder on every output list: analyzeResolvers on resolvers   *)
(* without inputs                                                            *)

CatalogDecls ==
    { Declaration(name, <<>>, outs) : name \in {"ResolveA", "ResolveB"},
                                      outs \in OutputLists }

NextCatalog == \E d \in CatalogDecls : Undeclared(d) /\ AnalyzeResolver(d)

SpecCatalog == Init /\ [][NextCatalog]_vars

(* The resolution chain on native types, on built-in and native types that   *)
(* resolvers produce, and on resolvers that produce pointers                 *)

ContextT(name, depth) == Param(name, "Context", "context", depth, FALSE)

ResponseWriterT(name, depth) == Param(name, "ResponseWriter", "net/http", depth, FALSE)

TypesParamDecls ==
    { IntT("id", 0), RequestT("r", 1), RequestT("q", 0), ContextT("ctx", 0),
      ResponseWriterT("w", 0), UserT("u", 0), UserT("v", 1), UserT("x", 2) }

TypesResolverDecls ==
    { Declaration("IntOfRequest", <<RequestT("r", 1)>>, <<IntT("", 0), ErrorT>>),
      Declaration("RequestOfContext", <<ContextT("ctx", 0)>>, <<RequestT("", 1)>>),
      Declaration("ContextOfId", <<IntT("id", 0)>>, <<ContextT("", 0), ErrorT>>),
      Declaration("UserById", <<StringT("id", 0)>>, <<UserT("", 0)>>),
      Declaration("UserRef", <<IntT("id", 0)>>, <<UserT("", 1), ErrorT>>),
      Declaration("UserHandle", <<>>, <<UserT("", 2)>>) }

TypesEndpointDecls ==
    { Declaration("Get", ins, <<UserT("", 0), ErrorT>>) :
        ins \in {l \in SeqsUpTo(TypesParamDecls, MaxParams) : DistinctNames(l)} }

NextTypes ==
    \/ \E d \in TypesResolverDecls : Undeclared(d) /\ AnalyzeResolver(d)
    \/ \E d \in TypesEndpointDecls : BeginEndpoint(d)
    \/ ResolveParam
    \/ ReturnResolvable
    \/ EndEndpoint

SpecTypes == Init /\ [][NextTypes]_vars

(* The native types at every pointer depth, with resolvers that produce them *)

NativeParamDecls ==
    { RequestT("r", 1), RequestT("q", 0), RequestT("rr", 2),
      ResponseWriterT("w", 0), ResponseWriterT("pw", 1),
      ContextT("ctx", 0), ContextT("pctx", 1), StringT("id", 0) }

NativeResolverDecls ==
    { Declaration("RequestOfContext", <<ContextT("ctx", 0)>>, <<RequestT("", 1)>>),
      Declaration("ContextOfId", <<StringT("id", 0)>>, <<ContextT("", 0), ErrorT>>),
      Declaration("WriterOfRequest", <<RequestT("r", 1)>>, <<ResponseWriterT("", 0)>>) }

NativeEndpointDecls ==
    { Declaration("Get", ins, <<UserT("", 0), ErrorT>>) :
        ins \in {l \in SeqsUpTo(NativeParamDecls, MaxParams) : DistinctNames(l)} }

NextNative ==
    \/ \E d \in NativeResolverDecls : Undeclared(d) /\ AnalyzeResolver(d)
    \/ \E d \in NativeEndpointDecls : BeginEndpoint(d)
    \/ ResolveParam
    \/ ReturnResolvable
    \/ EndEndpoint

SpecNative == Init /\ [][NextNative]_vars

(* The call-site wiring on longer parameter lists that mix path parameters,  *)
(* native parameters and a resolvable parameter, with named, blank ("_") and *)
(* unnamed parameters                                                        *)

WiringParamDecls ==
    { StringT("name", 0), IntT("id", 0), ResponseWriterT("w", 0), RequestT("r", 1),
      UserT("u", 1), StringT("_", 0), IntT("_", 0), StringT("", 0), IntT("", 0) }

WiringResolverDecls == { Declaration("UserById", <<StringT("id", 0)>>, <<UserT("", 0)>>) }

WiringEndpointDecls ==
    { Declaration("Get", ins, <<UserT("", 0), ErrorT>>) :
        ins \in {l \in SeqsUpTo(WiringParamDecls, MaxWiring) : DistinctNames(l)} }

NextWiring ==
    \/ \E d \in WiringResolverDecls : Undeclared(d) /\ AnalyzeResolver(d)
    \/ \E d \in WiringEndpointDecls : BeginEndpoint(d)
    \/ ResolveParam
    \/ ReturnResolvable
    \/ EndEndpoint

SpecWiring == Init /\ [][NextWiring]_vars

(* Resolver catalogs with and without cycles: resolvers that need the type   *)
(* they produce, directly, through another resolver, or behind an input that *)
(* can fail                                                                  *)

CycleParamDecls ==
    { StringT("id", 0), UserT("u", 1), UserT("x", 2), SessionT("s", 0),
      PayloadT("c", "lib") }

CycleResolverDecls ==
    { Declaration("UserOfUser", <<UserT("u", 1)>>, <<UserT("", 0)>>),
      Declaration("UserOfSession", <<SessionT("s", 0), IntT("id", 0)>>,
                  <<UserT("", 1), ErrorT>>),
      Declaration("SessionOfUser", <<UserT("u", 0)>>, <<SessionT("", 1)>>),
      Declaration("UserOfBody", <<PayloadT("a", "app"), UserT("u", 0)>>,
                  <<UserT("", 0), ErrorT>>),
      Declaration("SessionOfRequests", <<RequestT("r", 2), SessionT("s", 0)>>,
                  <<SessionT("", 0)>>),
      Declaration("UserById", <<StringT("id", 0)>>, <<UserT("", 0)>>),
      Declaration("SessionById", <<IntT("id", 0)>>, <<SessionT("", 0), ErrorT>>) }

CycleEndpointDecls ==
    { Declaration("Get", ins, <<UserT("", 0), ErrorT>>) :
        ins \in {l \in SeqsUpTo(CycleParamDecls, MaxParams) : DistinctNames(l)} }

NextCycle ==
    \/ \E d \in CycleResolverDecls : Undeclared(d) /\ AnalyzeResolver(d)
    \/ \E d \in CycleEndpointDecls : BeginEndpoint(d)
    \/ ResolveParam
    \/ ReturnResolvable
    \/ EndEndpoint

SpecCycle == Init /\ [][NextCycle]_vars

\* The pass is one sequential call: it keeps running until it returns
SpecCycleFair == SpecCycle /\ WF_vars(NextCycle)

----------------------------------------------------------------------------
(* The whole pass: AnalyzePackage over the services of a package and         *)
(* analyzeService over the endpoints of a service                            *)

\* The InputParamSlices of the endpoints of the services, one after the other
RECURSIVE stepsOfEndpoints(_)
stepsOfEndpoints(es) ==
    IF es = <<>> THEN <<>> ELSE Head(es).InputParams \o stepsOfEndpoints(Tail(es))

RECURSIVE stepsOfServices(_)
stepsOfServices(ss) ==
    IF ss = <<>> THEN <<>>
    ELSE stepsOfEndpoints(Head(ss).Endpoints) \o stepsOfServices(Tail(ss))

\* findUsedResolvers appending a Resolver for every resolve step
RECURSIVE usedResolvers_NoSet(_, _, _)
usedResolvers_NoSet(steps, names, slice) ==
    IF steps = <<>> THEN slice
    ELSE IF Head(steps).ParamKind = KindResolveParam
    THEN usedResolvers_NoSet(Tail(steps), names \cup {Head(steps).Resolver},
                             Append(slice, [TypeName |-> Head(steps).Resolver]))
    ELSE usedResolvers_NoSet(Tail(steps), names, slice)

\* The loops of findUsedResolvers on the steps that are left, with the
\* resolverNameSet and the resolverSlice built so far
RECURSIVE usedResolvers(_, _, _)
usedResolvers(steps, names, slice) ==
    IF steps = <<>> THEN slice
    ELSE IF Head(steps).ParamKind = KindResolveParam /\ Head(steps).Resolver \notin names
    THEN usedResolvers(Tail(steps), names \cup {Head(steps).Resolver},
                       Append(slice, [TypeName |-> Head(steps).Resolver]))
    ELSE usedResolvers(Tail(steps), names, slice)

findUsedResolvers(ss) == usedResolvers(stepsOfServices(ss), {}, <<>>)

\* The ServiceCollection AnalyzePackage returns
ServiceCollection(ss) ==
    [PackageName |-> "app", Services |-> ss, Resolvers |-> findUsedResolvers(ss)]

\* The endpoints analyzeEndpoint has returned in the package
RECURSIVE countEndpoints(_)
countEndpoints(ss) ==
    IF ss = <<>> THEN 0 ELSE Len(Head(ss).Endpoints) + countEndpoints(Tail(ss))

PkgResolverDecls ==
    { Declaration("UserById", <<StringT("id", 0)>>, <<UserT("", 0)>>),
      Declaration("SessionById", <<IntT("id", 0)>>, <<SessionT("", 0), ErrorT>>),
      Declaration("SessionOfUser", <<UserT("u", 0)>>, <<SessionT("", 1)>>),
      Declaration("TwoUsers", <<>>, <<UserT("", 0), UserT("", 0)>>),
      Declaration("Triple", <<>>, <<UserT("", 0), SessionT("", 0), ErrorT>>) }

PkgEndpointDecls ==
    { Declaration("GetUser", <<UserT("u", 1)>>, <<UserT("", 0), ErrorT>>),
      Declaration("GetSession", <<SessionT("s", 0)>>, <<SessionT("", 0), ErrorT>>),
      Declaration("GetBoth", <<SessionT("s", 0), UserT("u", 1)>>, <<UserT("", 0)>>),
      Declaration("GetId", <<StringT("id", 0)>>, <<StringT("", 0)>>),
      Declaration("GetHandle", <<UserT("x", 2)>>, <<UserT("", 0)>>),
      Declaration("GetTwo", <<StringT("id", 0)>>, <<UserT("", 0), UserT("", 0)>>) }

\* The name of the next service declaration of the package
ServiceName == "Service" \o Itoa(Len(services))

\* AnalyzePackage enters analyzeService with the next service declaration
BeginService ==
    /\ pc \in {"analyzeResolvers", "analyzePackage"}
    /\ Len(services) < MaxServices
    /\ pc' = "analyzeService"
    /\ service' = [TypeName |-> ServiceName]
    /\ endpoints' = <<>>
    /\ UNCHANGED <<resolvableTypes, decl, inputParams, stack, expanded, endpoint, err,
                   services, collection, docVars>>

\* analyzeService enters analyzeEndpoint with the next endpoint declaration: a
\* fresh step list and the call resolveParams(decl.InputParams())
AnalyzeEndpoint(d) ==
    /\ pc = "analyzeService"
    /\ countEndpoints(services) + Len(endpoints) < MaxEndpoints
    /\ pc' = "resolveParams"
    /\ decl' = d
    /\ inputParams' = <<>>
    /\ stack' = <<Frame(d.InputParams, Nil, Nil)>>
    /\ expanded' = <<>>
    /\ endpoint' = Nil
    /\ UNCHANGED <<resolvableTypes, err, pkgVars, docVars>>

\* analyzeEndpoint returned an endpoint: analyzeService sets its Service and
\* appends it
EndpointReturned ==
    /\ pc = "done"
    /\ service # Nil
    /\ pc' = "analyzeService"
    /\ endpoints' = Append(endpoints,
                           [Service |-> service.TypeName, FuncName |-> endpoint.FuncName,
                            InputVars |-> endpoint.InputVars,
                            InputParams |-> endpoint.InputParams,
                            ReturnsValue |-> endpoint.ReturnsValue,
                            ReturnsError |-> endpoint.ReturnsError])
    /\ UNCHANGED <<resolvableTypes, decl, inputParams, stack, expanded, endpoint, err,
                   service, services, collection, docVars>>

\* analyzeEndpoint that goes on with the next endpoint after an error
EndpointFailed_Skipped ==
    /\ pc = "failed"
    /\ service # Nil
    /\ pc' = "analyzeService"
    /\ err' = NoError
    /\ UNCHANGED <<resolvableTypes, decl, inputParams, stack, expanded, endpoint,
                   pkgVars, docVars>>

\* analyzeEndpoint returned an error: analyzeService and AnalyzePackage wrap it
\* and return no service and no collection
EndpointFailed ==
    /\ pc = "failed"
    /\ service # Nil
    /\ pc' = "returned"
    /\ err' = "analyzing service " \o service.TypeName \o ": "
                  \o "analyzing endpoint " \o decl.Name \o ": " \o err
    /\ UNCHANGED <<resolvableTypes, decl, inputParams, stack, expanded, endpoint,
                   pkgVars, docVars>>

\* analyzeResolvers returned an error: AnalyzePackage returns it
ResolversFailed ==
    /\ pc = "failed"
    /\ service = Nil
    /\ pc' = "returned"
    /\ UNCHANGED <<resolvableTypes, decl, inputParams, stack, expanded, endpoint, err,
                   pkgVars, docVars>>

\* analyzeService has passed its last endpoint: AnalyzePackage appends the service
EndService ==
    /\ pc = "analyzeService"
    /\ pc' = "analyzePackage"
    /\ services' = Append(services, [TypeName |-> service.TypeName, Endpoints |-> endpoints])
    /\ service' = Nil
    /\ endpoints' = <<>>
    /\ UNCHANGED <<resolvableTypes, decl, inputParams, stack, expanded, endpoint, err,
                   collection, docVars>>

\* AnalyzePackage has passed its last service: it returns the collection
ReturnCollection ==
    /\ pc \in {"analyzeResolvers", "analyzePackage"}
    /\ pc' = "returned"
    /\ collection' = ServiceCollection(services)
    /\ UNCHANGED <<resolvableTypes, decl, inputParams, stack, expanded, endpoint, err,
                   service, endpoints, services, docVars>>

NextPackage ==
    \/ \E d \in PkgResolverDecls : Undeclared(d) /\ AnalyzeResolver(d)
    \/ BeginService
    \/ \E d \in PkgEndpointDecls : AnalyzeEndpoint(d)
    \/ ResolveParam
    \/ ReturnResolvable
    \/ EndEndpoint
    \/ EndpointReturned
    \/ EndpointFailed
    \/ ResolversFailed
    \/ EndService
    \/ ReturnCollection

SpecPackage == Init /\ [][NextPackage]_vars

----------------------------------------------------------------------------
(* Annotations (parse.go). A string is a sequence of characters, each a      *)
(* one-character string or, outside ASCII, its code point ("U+00A0").        *)

\* The letters strings.ToLower maps (unicode.ToLower, Unicode 14.0.0), each at the
\* position of its lower-case letter in LowerCase. A character outside ASCII
\* is written by its code point, "U+00C9" for U+00C9.
UpperCase ==
    <<"A", "B", "C", "D", "E", "F", "G", "H",
      "I", "J", "K", "L", "M", "N", "O", "P",
      "Q", "R", "S", "T", "U", "V", "W", "X",
      "Y", "Z", "U+00C0", "U+00C1", "U+00C2", "U+00C3", "U+00C4", "U+00C5",
      "U+00C6", "U+00C7", "U+00C8", "U+00C9", "U+00CA", "U+00CB", "U+00CC", "U+00CD",
      "U+00CE", "U+00CF", "U+00D0", "U+00D1", "U+00D2", "U+00D3", "U+00D4", "U+00D5",
      "U+00D6", "U+00D8", "U+00D9", "U+00DA", "U+00DB", "U+00DC", "U+00DD", "U+00DE",
      "U+0100", "U+0102", "U+0104", "U+0106", "U+0108", "U+010A", "U+010C", "U+010E",
      "U+0110", "U+0112", "U+0114", "U+0116", "U+0118", "U+011A", "U+011C", "U+011E",
      "U+0120", "U+0122", "U+0124", "U+0126", "U+0128", "U+012A", "U+012C", "U+012E",
      "U+0130", "U+0132", "U+0134", "U+0136", "U+0139", "U+013B", "U+013D", "U+013F",
      "U+0141", "U+0143", "U+0145", "U+0147", "U+014A", "U+014C", "U+014E", "U+0150",
      "U+0152", "U+0154", "U+0156", "U+0158", "U+015A", "U+015C", "U+015E", "U+0160",
      "U+0162", "U+0164", "U+0166", "U+0168", "U+016A", "U+016C", "U+016E", "U+0170",
      "U+0172", "U+0174", "U+0176", "U+0178", "U+0179", "U+017B", "U+017D", "U+0181",
      "U+0182", "U+0184", "U+0186", "U+0187", "U+0189", "U+018A", "U+018B", "U+018E",
      "U+018F", "U+0190", "U+0191", "U+0193", "U+0194", "U+0196", "U+0197", "U+0198",
      "U+019C", "U+019D", "U+019F", "U+01A0", "U+01A2", "U+01A4", "U+01A6", "U+01A7",
      "U+01A9", "U+01AC", "U+01AE", "U+01AF", "U+01B1", "U+01B2", "U+01B3", "U+01B5",
      "U+01B7", "U+01B8", "U+01BC", "U+01C4", "U+01C5", "U+01C7", "U+01C8", "U+01CA",
      "U+01CB", "U+01CD", "U+01CF", "U+01D1", "U+01D3", "U+01D5", "U+01D7", "U+01D9",
      "U+01DB", "U+01DE", "U+01E0", "U+01E2", "U+01E4", "U+01E6", "U+01E8", "U+01EA",
      "U+01EC", "U+01EE", "U+01F1", "U+01F2", "U+01F4", "U+01F6", "U+01F7", "U+01F8",
      "U+01FA", "U+01FC", "U+01FE", "U+0200", "U+0202", "U+0204", "U+0206", "U+0208",
      "U+020A", "U+020C", "U+020E", "U+0210", "U+0212", "U+0214", "U+0216", "U+0218",
      "U+021A", "U+021C", "U+021E", "U+0220", "U+0222", "U+0224", "U+0226", "U+0228",
      "U+022A", "U+022C", "U+022E", "U+0230", "U+0232", "U+023A", "U+023B", "U+023D",
      "U+023E", "U+0241", "U+0243", "U+0244", "U+0245", "U+0246", "U+0248", "U+024A",
      "U+024C", "U+024E", "U+0370", "U+0372", "U+0376", "U+037F", "U+0386", "U+0388",
      "U+0389", "U+038A", "U+038C", "U+038E", "U+038F", "U+0391", "U+0392", "U+0393",
      "U+0394", "U+0395", "U+0396", "U+0397", "U+0398", "U+0399", "U+039A", "U+039B",
      "U+039C", "U+039D", "U+039E", "U+039F", "U+03A0", "U+03A1", "U+03A3", "U+03A4",
      "U+03A5", "U+03A6", "U+03A7", "U+03A8", "U+03A9", "U+03AA", "U+03AB", "U+03CF",
      "U+03D8", "U+03DA", "U+03DC", "U+03DE", "U+03E0", "U+03E2", "U+03E4", "U+03E6",
      "U+03E8", "U+03EA", "U+03EC", "U+03EE", "U+03F4", "U+03F7", "U+03F9", "U+03FA",
      "U+03FD", "U+03FE", "U+03FF", "U+0400", "U+0401", "U+0402", "U+0403", "U+0404",
      "U+0405", "U+0406", "U+0407", "U+0408", "U+0409", "U+040A", "U+040B", "U+040C",
      "U+040D", "U+040E", "U+040F", "U+0410", "U+0411", "U+0412", "U+0413", "U+0414",
      "U+0415", "U+0416", "U+0417", "U+0418", "U+0419", "U+041A", "U+041B", "U+041C",
      "U+041D", "U+041E", "U+041F", "U+0420", "U+0421", "U+0422", "U+0423", "U+0424",
      "U+0425", "U+0426", "U+0427", "U+0428", "U+0429", "U+042A", "U+042B", "U+042C",
      "U+042D", "U+042E", "U+042F", "U+0460", "U+0462", "U+0464", "U+0466", "U+0468",
      "U+046A", "U+046C", "U+046E", "U+0470", "U+0472", "U+0474", "U+0476", "U+0478",
      "U+047A", "U+047C", "U+047E", "U+0480", "U+048A", "U+048C", "U+048E", "U+0490",
      "U+0492", "U+0494", "U+0496", "U+0498", "U+049A", "U+049C", "U+049E", "U+04A0",
      "U+04A2", "U+04A4", "U+04A6", "U+04A8", "U+04AA", "U+04AC", "U+04AE", "U+04B0",
      "U+04B2", "U+04B4", "U+04B6", "U+04B8", "U+04BA", "U+04BC", "U+04BE", "U+04C0",
      "U+04C1", "U+04C3", "U+04C5", "U+04C7", "U+04C9", "U+04CB", "U+04CD", "U+04D0",
      "U+04D2", "U+04D4", "U+04D6", "U+04D8", "U+04DA", "U+04DC", "U+04DE", "U+04E0",
      "U+04E2", "U+04E4", "U+04E6", "U+04E8", "U+04EA", "U+04EC", "U+04EE", "U+04F0",
      "U+04F2", "U+04F4", "U+04F6", "U+04F8", "U+04FA", "U+04FC", "U+04FE", "U+0500",
      "U+0502", "U+0504", "U+0506", "U+0508", "U+050A", "U+050C", "U+050E", "U+0510",
      "U+0512", "U+0514", "U+0516", "U+0518", "U+051A", "U+051C", "U+051E", "U+0520",
      "U+0522", "U+0524", "U+0526", "U+0528", "U+052A", "U+052C", "U+052E", "U+0531",
      "U+0532", "U+0533", "U+0534", "U+0535", "U+0536", "U+0537", "U+0538", "U+0539",
      "U+053A", "U+053B", "U+053C", "U+053D", "U+053E", "U+053F", "U+0540", "U+0541",
      "U+0542", "U+0543", "U+0544", "U+0545", "U+0546", "U+0547", "U+0548", "U+0549",
      "U+054A", "U+054B", "U+054C", "U+054D", "U+054E", "U+054F", "U+0550", "U+0551",
      "U+0552", "U+0553", "U+0554", "U+0555", "U+0556", "U+10A0", "U+10A1", "U+10A2",
      "U+10A3", "U+10A4", "U+10A5", "U+10A6", "U+10A7", "U+10A8", "U+10A9", "U+10AA",
      "U+10AB", "U+10AC", "U+10AD", "U+10AE", "U+10AF", "U+10B0", "U+10B1", "U+10B2",
      "U+10B3", "U+10B4", "U+10B5", "U+10B6", "U+10B7", "U+10B8", "U+10B9", "U+10BA",
      "U+10BB", "U+10BC", "U+10BD", "U+10BE", "U+10BF", "U+10C0", "U+10C1", "U+10C2",
      "U+10C3", "U+10C4", "U+10C5", "U+10C7", "U+10CD", "U+13A0", "U+13A1", "U+13A2",
      "U+13A3", "U+13A4", "U+13A5", "U+13A6", "U+13A7", "U+13A8", "U+13A9", "U+13AA",
      "U+13AB", "U+13AC", "U+13AD", "U+13AE", "U+13AF", "U+13B0", "U+13B1", "U+13B2",
      "U+13B3", "U+13B4", "U+13B5", "U+13B6", "U+13B7", "U+13B8", "U+13B9", "U+13BA",
      "U+13BB", "U+13BC", "U+13BD", "U+13BE", "U+13BF", "U+13C0", "U+13C1", "U+13C2",
      "U+13C3", "U+13C4", "U+13C5", "U+13C6", "U+13C7", "U+13C8", "U+13C9", "U+13CA",
      "U+13CB", "U+13CC", "U+13CD", "U+13CE", "U+13CF", "U+13D0", "U+13D1", "U+13D2",
      "U+13D3", "U+13D4", "U+13D5", "U+13D6", "U+13D7", "U+13D8", "U+13D9", "U+13DA",
      "U+13DB", "U+13DC", "U+13DD", "U+13DE", "U+13DF", "U+13E0", "U+13E1", "U+13E2",
      "U+13E3", "U+13E4", "U+13E5", "U+13E6", "U+13E7", "U+13E8", "U+13E9", "U+13EA",
      "U+13EB", "U+13EC", "U+13ED", "U+13EE", "U+13EF", "U+13F0", "U+13F1", "U+13F2",
      "U+13F3", "U+13F4", "U+13F5", "U+1C90", "U+1C91", "U+1C92", "U+1C93", "U+1C94",
      "U+1C95", "U+1C96", "U+1C97", "U+1C98", "U+1C99", "U+1C9A", "U+1C9B", "U+1C9C",
      "U+1C9D", "U+1C9E", "U+1C9F", "U+1CA0", "U+1CA1", "U+1CA2", "U+1CA3", "U+1CA4",
      "U+1CA5", "U+1CA6", "U+1CA7", "U+1CA8", "U+1CA9", "U+1CAA", "U+1CAB", "U+1CAC",
      "U+1CAD", "U+1CAE", "U+1CAF", "U+1CB0", "U+1CB1", "U+1CB2", "U+1CB3", "U+1CB4",
      "U+1CB5", "U+1CB6", "U+1CB7", "U+1CB8", "U+1CB9", "U+1CBA", "U+1CBD", "U+1CBE",
      "U+1CBF", "U+1E00", "U+1E02", "U+1E04", "U+1E06", "U+1E08", "U+1E0A", "U+1E0C",
      "U+1E0E", "U+1E10", "U+1E12", "U+1E14", "U+1E16", "U+1E18", "U+1E1A", "U+1E1C",
      "U+1E1E", "U+1E20", "U+1E22", "U+1E24", "U+1E26", "U+1E28", "U+1E2A", "U+1E2C",
      "U+1E2E", "U+1E30", "U+1E32", "U+1E34", "U+1E36", "U+1E38", "U+1E3A", "U+1E3C",
      "U+1E3E", "U+1E40", "U+1E42", "U+1E44", "U+1E46", "U+1E48", "U+1E4A", "U+1E4C",
      "U+1E4E", "U+1E50", "U+1E52", "U+1E54", "U+1E56", "U+1E58", "U+1E5A", "U+1E5C",
      "U+1E5E", "U+1E60", "U+1E62", "U+1E64", "U+1E66", "U+1E68", "U+1E6A", "U+1E6C",
      "U+1E6E", "U+1E70", "U+1E72", "U+1E74", "U+1E76", "U+1E78", "U+1E7A", "U+1E7C",
      "U+1E7E", "U+1E80", "U+1E82", "U+1E84", "U+1E86", "U+1E88", "U+1E8A", "U+1E8C",
      "U+1E8E", "U+1E90", "U+1E92", "U+1E94", "U+1E9E", "U+1EA0", "U+1EA2", "U+1EA4",
      "U+1EA6", "U+1EA8", "U+1EAA", "U+1EAC", "U+1EAE", "U+1EB0", "U+1EB2", "U+1EB4",
      "U+1EB6", "U+1EB8", "U+1EBA", "U+1EBC", "U+1EBE", "U+1EC0", "U+1EC2", "U+1EC4",
      "U+1EC6", "U+1EC8", "U+1ECA", "U+1ECC", "U+1ECE", "U+1ED0", "U+1ED2", "U+1ED4",
      "U+1ED6", "U+1ED8", "U+1EDA", "U+1EDC", "U+1EDE", "U+1EE0", "U+1EE2", "U+1EE4",
      "U+1EE6", "U+1EE8", "U+1EEA", "U+1EEC", "U+1EEE", "U+1EF0", "U+1EF2", "U+1EF4",
      "U+1EF6", "U+1EF8", "U+1EFA", "U+1EFC", "U+1EFE", "U+1F08", "U+1F09", "U+1F0A",
      "U+1F0B", "U+1F0C", "U+1F0D", "U+1F0E", "U+1F0F", "U+1F18", "U+1F19", "U+1F1A",
      "U+1F1B", "U+1F1C", "U+1F1D", "U+1F28", "U+1F29", "U+1F2A", "U+1F2B", "U+1F2C",
      "U+1F2D", "U+1F2E", "U+1F2F", "U+1F38", "U+1F39", "U+1F3A", "U+1F3B", "U+1F3C",
      "U+1F3D", "U+1F3E", "U+1F3F", "U+1F48", "U+1F49", "U+1F4A", "U+1F4B", "U+1F4C",
      "U+1F4D", "U+1F59", "U+1F5B", "U+1F5D", "U+1F5F", "U+1F68", "U+1F69", "U+1F6A",
      "U+1F6B", "U+1F6C", "U+1F6D", "U+1F6E", "U+1F6F", "U+1F88", "U+1F89", "U+1F8A",
      "U+1F8B", "U+1F8C", "U+1F8D", "U+1F8E", "U+1F8F", "U+1F98", "U+1F99", "U+1F9A",
      "U+1F9B", "U+1F9C", "U+1F9D", "U+1F9E", "U+1F9F", "U+1FA8", "U+1FA9", "U+1FAA",
      "U+1FAB", "U+1FAC", "U+1FAD", "U+1FAE", "U+1FAF", "U+1FB8", "U+1FB9", "U+1FBA",
      "U+1FBB", "U+1FBC", "U+1FC8", "U+1FC9", "U+1FCA", "U+1FCB", "U+1FCC", "U+1FD8",
      "U+1FD9", "U+1FDA", "U+1FDB", "U+1FE8", "U+1FE9", "U+1FEA", "U+1FEB", "U+1FEC",
      "U+1FF8", "U+1FF9", "U+1FFA", "U+1FFB", "U+1FFC", "U+2126", "U+212A", "U+212B",
      "U+2132", "U+2160", "U+2161", "U+2162", "U+2163", "U+2164", "U+2165", "U+2166",
      "U+2167", "U+2168", "U+2169", "U+216A", "U+216B", "U+216C", "U+216D", "U+216E",
      "U+216F", "U+2183", "U+24B6", "U+24B7", "U+24B8", "U+24B9", "U+24BA", "U+24BB",
      "U+24BC", "U+24BD", "U+24BE", "U+24BF", "U+24C0", "U+24C1", "U+24C2", "U+24C3",
      "U+24C4", "U+24C5", "U+24C6", "U+24C7", "U+24C8", "U+24C9", "U+24CA", "U+24CB",
      "U+24CC", "U+24CD", "U+24CE", "U+24CF", "U+2C00", "U+2C01", "U+2C02", "U+2C03",
      "U+2C04", "U+2C05", "U+2C06", "U+2C07", "U+2C08", "U+2C09", "U+2C0A", "U+2C0B",
      "U+2C0C", "U+2C0D", "U+2C0E", "U+2C0F", "U+2C10", "U+2C11", "U+2C12", "U+2C13",
      "U+2C14", "U+2C15", "U+2C16", "U+2C17", "U+2C18", "U+2C19", "U+2C1A", "U+2C1B",
      "U+2C1C", "U+2C1D", "U+2C1E", "U+2C1F", "U+2C20", "U+2C21", "U+2C22", "U+2C23",
      "U+2C24", "U+2C25", "U+2C26", "U+2C27", "U+2C28", "U+2C29", "U+2C2A", "U+2C2B",
      "U+2C2C", "U+2C2D", "U+2C2E", "U+2C2F", "U+2C60", "U+2C62", "U+2C63", "U+2C64",
      "U+2C67", "U+2C69", "U+2C6B", "U+2C6D", "U+2C6E", "U+2C6F", "U+2C70", "U+2C72",
      "U+2C75", "U+2C7E", "U+2C7F", "U+2C80", "U+2C82", "U+2C84", "U+2C86", "U+2C88",
      "U+2C8A", "U+2C8C", "U+2C8E", "U+2C90", "U+2C92", "U+2C94", "U+2C96", "U+2C98",
      "U+2C9A", "U+2C9C", "U+2C9E", "U+2CA0", "U+2CA2", "U+2CA4", "U+2CA6", "U+2CA8",
      "U+2CAA", "U+2CAC", "U+2CAE", "U+2CB0", "U+2CB2", "U+2CB4", "U+2CB6", "U+2CB8",
      "U+2CBA", "U+2CBC", "U+2CBE", "U+2CC0", "U+2CC2", "U+2CC4", "U+2CC6", "U+2CC8",
      "U+2CCA", "U+2CCC", "U+2CCE", "U+2CD0", "U+2CD2", "U+2CD4", "U+2CD6", "U+2CD8",
      "U+2CDA", "U+2CDC", "U+2CDE", "U+2CE0", "U+2CE2", "U+2CEB", "U+2CED", "U+2CF2",
      "U+A640", "U+A642", "U+A644", "U+A646", "U+A648", "U+A64A", "U+A64C", "U+A64E",
      "U+A650", "U+A652", "U+A654", "U+A656", "U+A658", "U+A65A", "U+A65C", "U+A65E",
      "U+A660", "U+A662", "U+A664", "U+A666", "U+A668", "U+A66A", "U+A66C", "U+A680",
      "U+A682", "U+A684", "U+A686", "U+A688", "U+A68A", "U+A68C", "U+A68E", "U+A690",
      "U+A692", "U+A694", "U+A696", "U+A698", "U+A69A", "U+A722", "U+A724", "U+A726",
      "U+A728", "U+A72A", "U+A72C", "U+A72E", "U+A732", "U+A734", "U+A736", "U+A738",
      "U+A73A", "U+A73C", "U+A73E", "U+A740", "U+A742", "U+A744", "U+A746", "U+A748",
      "U+A74A", "U+A74C", "U+A74E", "U+A750", "U+A752", "U+A754", "U+A756", "U+A758",
      "U+A75A", "U+A75C", "U+A75E", "U+A760", "U+A762", "U+A764", "U+A766", "U+A768",
      "U+A76A", "U+A76C", "U+A76E", "U+A779", "U+A77B", "U+A77D", "U+A77E", "U+A780",
      "U+A782", "U+A784", "U+A786", "U+A78B", "U+A78D", "U+A790", "U+A792", "U+A796",
      "U+A798", "U+A79A", "U+A79C", "U+A79E", "U+A7A0", "U+A7A2", "U+A7A4", "U+A7A6",
      "U+A7A8", "U+A7AA", "U+A7AB", "U+A7AC", "U+A7AD", "U+A7AE", "U+A7B0", "U+A7B1",
      "U+A7B2", "U+A7B3", "U+A7B4", "U+A7B6", "U+A7B8", "U+A7BA", "U+A7BC", "U+A7BE",
      "U+A7C0", "U+A7C2", "U+A7C4", "U+A7C5", "U+A7C6", "U+A7C7", "U+A7C9", "U+A7D0",
      "U+A7D6", "U+A7D8", "U+A7F5", "U+FF21", "U+FF22", "U+FF23", "U+FF24", "U+FF25",
      "U+FF26", "U+FF27", "U+FF28", "U+FF29", "U+FF2A", "U+FF2B", "U+FF2C", "U+FF2D",
      "U+FF2E", "U+FF2F", "U+FF30", "U+FF31", "U+FF32", "U+FF33", "U+FF34", "U+FF35",
      "U+FF36", "U+FF37", "U+FF38", "U+FF39", "U+FF3A", "U+10400", "U+10401", "U+10402",
      "U+10403", "U+10404", "U+10405", "U+10406", "U+10407", "U+10408", "U+10409", "U+1040A",
      "U+1040B", "U+1040C", "U+1040D", "U+1040E", "U+1040F", "U+10410", "U+10411", "U+10412",
      "U+10413", "U+10414", "U+10415", "U+10416", "U+10417", "U+10418", "U+10419", "U+1041A",
      "U+1041B", "U+1041C", "U+1041D", "U+1041E", "U+1041F", "U+10420", "U+10421", "U+10422",
      "U+10423", "U+10424", "U+10425", "U+10426", "U+10427", "U+104B0", "U+104B1", "U+104B2",
      "U+104B3", "U+104B4", "U+104B5", "U+104B6", "U+104B7", "U+104B8", "U+104B9", "U+104BA",
      "U+104BB", "U+104BC", "U+104BD", "U+104BE", "U+104BF", "U+104C0", "U+104C1", "U+104C2",
      "U+104C3", "U+104C4", "U+104C5", "U+104C6", "U+104C7", "U+104C8", "U+104C9", "U+104CA",
      "U+104CB", "U+104CC", "U+104CD", "U+104CE", "U+104CF", "U+104D0", "U+104D1", "U+104D2",
      "U+104D3", "U+10570", "U+10571", "U+10572", "U+10573", "U+10574", "U+10575", "U+10576",
      "U+10577", "U+10578", "U+10579", "U+1057A", "U+1057C", "U+1057D", "U+1057E", "U+1057F",
      "U+10580", "U+10581", "U+10582", "U+10583", "U+10584", "U+10585", "U+10586", "U+10587",
      "U+10588", "U+10589", "U+1058A", "U+1058C", "U+1058D", "U+1058E", "U+1058F", "U+10590",
      "U+10591", "U+10592", "U+10594", "U+10595", "U+10C80", "U+10C81", "U+10C82", "U+10C83",
      "U+10C84", "U+10C85", "U+10C86", "U+10C87", "U+10C88", "U+10C89", "U+10C8A", "U+10C8B",
      "U+10C8C", "U+10C8D", "U+10C8E", "U+10C8F", "U+10C90", "U+10C91", "U+10C92", "U+10C93",
      "U+10C94", "U+10C95", "U+10C96", "U+10C97", "U+10C98", "U+10C99", "U+10C9A", "U+10C9B",
      "U+10C9C", "U+10C9D", "U+10C9E", "U+10C9F", "U+10CA0", "U+10CA1", "U+10CA2", "U+10CA3",
      "U+10CA4", "U+10CA5", "U+10CA6", "U+10CA7", "U+10CA8", "U+10CA9", "U+10CAA", "U+10CAB",
      "U+10CAC", "U+10CAD", "U+10CAE", "U+10CAF", "U+10CB0", "U+10CB1", "U+10CB2", "U+118A0",
      "U+118A1", "U+118A2", "U+118A3", "U+118A4", "U+118A5", "U+118A6", "U+118A7", "U+118A8",
      "U+118A9", "U+118AA", "U+118AB", "U+118AC", "U+118AD", "U+118AE", "U+118AF", "U+118B0",
      "U+118B1", "U+118B2", "U+118B3", "U+118B4", "U+118B5", "U+118B6", "U+118B7", "U+118B8",
      "U+118B9", "U+118BA", "U+118BB", "U+118BC", "U+118BD", "U+118BE", "U+118BF", "U+16E40",
      "U+16E41", "U+16E42", "U+16E43", "U+16E44", "U+16E45", "U+16E46", "U+16E47", "U+16E48",
      "U+16E49", "U+16E4A", "U+16E4B", "U+16E4C", "U+16E4D", "U+16E4E", "U+16E4F", "U+16E50",
      "U+16E51", "U+16E52", "U+16E53", "U+16E54", "U+16E55", "U+16E56", "U+16E57", "U+16E58",
      "U+16E59", "U+16E5A", "U+16E5B", "U+16E5C", "U+16E5D", "U+16E5E", "U+16E5F", "U+1E900",
      "U+1E901", "U+1E902", "U+1E903", "U+1E904", "U+1E905", "U+1E906", "U+1E907", "U+1E908",
      "U+1E909", "U+1E90A", "U+1E90B", "U+1E90C", "U+1E90D", "U+1E90E", "U+1E90F", "U+1E910",
      "U+1E911", "U+1E912", "U+1E913", "U+1E914", "U+1E915", "U+1E916", "U+1E917", "U+1E918",
      "U+1E919", "U+1E91A", "U+1E91B", "U+1E91C", "U+1E91D", "U+1E91E", "U+1E91F", "U+1E920",
      "U+1E921">>

LowerCase ==
    <<"a", "b", "c", "d", "e", "f", "g", "h",
      "i", "j", "k", "l", "m", "n", "o", "p",
      "q", "r", "s", "t", "u", "v", "w", "x",
      "y", "z", "U+00E0", "U+00E1", "U+00E2", "U+00E3", "U+00E4", "U+00E5",
      "U+00E6", "U+00E7", "U+00E8", "U+00E9", "U+00EA", "U+00EB", "U+00EC", "U+00ED",
      "U+00EE", "U+00EF", "U+00F0", "U+00F1", "U+00F2", "U+00F3", "U+00F4", "U+00F5",
      "U+00F6", "U+00F8", "U+00F9", "U+00FA", "U+00FB", "U+00FC", "U+00FD", "U+00FE",
      "U+0101", "U+0103", "U+0105", "U+0107", "U+0109", "U+010B", "U+010D", "U+010F",
      "U+0111", "U+0113", "U+0115", "U+0117", "U+0119", "U+011B", "U+011D", "U+011F",
      "U+0121", "U+0123", "U+0125", "U+0127", "U+0129", "U+012B", "U+012D", "U+012F",
      "i", "U+0133", "U+0135", "U+0137", "U+013A", "U+013C", "U+013E", "U+0140",
      "U+0142", "U+0144", "U+0146", "U+0148", "U+014B", "U+014D", "U+014F", "U+0151",
      "U+0153", "U+0155", "U+0157", "U+0159", "U+015B", "U+015D", "U+015F", "U+0161",
      "U+0163", "U+0165", "U+0167", "U+0169", "U+016B", "U+016D", "U+016F", "U+0171",
      "U+0173", "U+0175", "U+0177", "U+00FF", "U+017A", "U+017C", "U+017E", "U+0253",
      "U+0183", "U+0185", "U+0254", "U+0188", "U+0256", "U+0257", "U+018C", "U+01DD",
      "U+0259", "U+025B", "U+0192", "U+0260", "U+0263", "U+0269", "U+0268", "U+0199",
      "U+026F", "U+0272", "U+0275", "U+01A1", "U+01A3", "U+01A5", "U+0280", "U+01A8",
      "U+0283", "U+01AD", "U+0288", "U+01B0", "U+028A", "U+028B", "U+01B4", "U+01B6",
      "U+0292", "U+01B9", "U+01BD", "U+01C6", "U+01C6", "U+01C9", "U+01C9", "U+01CC",
      "U+01CC", "U+01CE", "U+01D0", "U+01D2", "U+01D4", "U+01D6", "U+01D8", "U+01DA",
      "U+01DC", "U+01DF", "U+01E1", "U+01E3", "U+01E5", "U+01E7", "U+01E9", "U+01EB",
      "U+01ED", "U+01EF", "U+01F3", "U+01F3", "U+01F5", "U+0195", "U+01BF", "U+01F9",
      "U+01FB", "U+01FD", "U+01FF", "U+0201", "U+0203", "U+0205", "U+0207", "U+0209",
      "U+020B", "U+020D", "U+020F", "U+0211", "U+0213", "U+0215", "U+0217", "U+0219",
      "U+021B", "U+021D", "U+021F", "U+019E", "U+0223", "U+0225", "U+0227", "U+0229",
      "U+022B", "U+022D", "U+022F", "U+0231", "U+0233", "U+2C65", "U+023C", "U+019A",
      "U+2C66", "U+0242", "U+0180", "U+0289", "U+028C", "U+0247", "U+0249", "U+024B",
      "U+024D", "U+024F", "U+0371", "U+0373", "U+0377", "U+03F3", "U+03AC", "U+03AD",
      "U+03AE", "U+03AF", "U+03CC", "U+03CD", "U+03CE", "U+03B1", "U+03B2", "U+03B3",
      "U+03B4", "U+03B5", "U+03B6", "U+03B7", "U+03B8", "U+03B9", "U+03BA", "U+03BB",
      "U+03BC", "U+03BD", "U+03BE", "U+03BF", "U+03C0", "U+03C1", "U+03C3", "U+03C4",
      "U+03C5", "U+03C6", "U+03C7", "U+03C8", "U+03C9", "U+03CA", "U+03CB", "U+03D7",
      "U+03D9", "U+03DB", "U+03DD", "U+03DF", "U+03E1", "U+03E3", "U+03E5", "U+03E7",
      "U+03E9", "U+03EB", "U+03ED", "U+03EF", "U+03B8", "U+03F8", "U+03F2", "U+03FB",
      "U+037B", "U+037C", "U+037D", "U+0450", "U+0451", "U+0452", "U+0453", "U+0454",
      "U+0455", "U+0456", "U+0457", "U+0458", "U+0459", "U+045A", "U+045B", "U+045C",
      "U+045D", "U+045E", "U+045F", "U+0430", "U+0431", "U+0432", "U+0433", "U+0434",
      "U+0435", "U+0436", "U+0437", "U+0438", "U+0439", "U+043A", "U+043B", "U+043C",
      "U+043D", "U+043E", "U+043F", "U+0440", "U+0441", "U+0442", "U+0443", "U+0444",
      "U+0445", "U+0446", "U+0447", "U+0448", "U+0449", "U+044A", "U+044B", "U+044C",
      "U+044D", "U+044E", "U+044F", "U+0461", "U+0463", "U+0465", "U+0467", "U+0469",
      "U+046B", "U+046D", "U+046F", "U+0471", "U+0473", "U+0475", "U+0477", "U+0479",
      "U+047B", "U+047D", "U+047F", "U+0481", "U+048B", "U+048D", "U+048F", "U+0491",
      "U+0493", "U+0495", "U+0497", "U+0499", "U+049B", "U+049D", "U+049F", "U+04A1",
      "U+04A3", "U+04A5", "U+04A7", "U+04A9", "U+04AB", "U+04AD", "U+04AF", "U+04B1",
      "U+04B3", "U+04B5", "U+04B7", "U+04B9", "U+04BB", "U+04BD", "U+04BF", "U+04CF",
      "U+04C2", "U+04C4", "U+04C6", "U+04C8", "U+04CA", "U+04CC", "U+04CE", "U+04D1",
      "U+04D3", "U+04D5", "U+04D7", "U+04D9", "U+04DB", "U+04DD", "U+04DF", "U+04E1",
      "U+04E3", "U+04E5", "U+04E7", "U+04E9", "U+04EB", "U+04ED", "U+04EF", "U+04F1",
      "U+04F3", "U+04F5", "U+04F7", "U+04F9", "U+04FB", "U+04FD", "U+04FF", "U+0501",
      "U+0503", "U+0505", "U+0507", "U+0509", "U+050B", "U+050D", "U+050F", "U+0511",
      "U+0513", "U+0515", "U+0517", "U+0519", "U+051B", "U+051D", "U+051F", "U+0521",
      "U+0523", "U+0525", "U+0527", "U+0529", "U+052B", "U+052D", "U+052F", "U+0561",
      "U+0562", "U+0563", "U+0564", "U+0565", "U+0566", "U+0567", "U+0568", "U+0569",
      "U+056A", "U+056B", "U+056C", "U+056D", "U+056E", "U+056F", "U+0570", "U+0571",
      "U+0572", "U+0573", "U+0574", "U+0575", "U+0576", "U+0577", "U+0578", "U+0579",
      "U+057A", "U+057B", "U+057C", "U+057D", "U+057E", "U+057F", "U+0580", "U+0581",
      "U+0582", "U+0583", "U+0584", "U+0585", "U+0586", "U+2D00", "U+2D01", "U+2D02",
      "U+2D03", "U+2D04", "U+2D05", "U+2D06", "U+2D07", "U+2D08", "U+2D09", "U+2D0A",
      "U+2D0B", "U+2D0C", "U+2D0D", "U+2D0E", "U+2D0F", "U+2D10", "U+2D11", "U+2D12",
      "U+2D13", "U+2D14", "U+2D15", "U+2D16", "U+2D17", "U+2D18", "U+2D19", "U+2D1A",
      "U+2D1B", "U+2D1C", "U+2D1D", "U+2D1E", "U+2D1F", "U+2D20", "U+2D21", "U+2D22",
      "U+2D23", "U+2D24", "U+2D25", "U+2D27", "U+2D2D", "U+AB70", "U+AB71", "U+AB72",
      "U+AB73", "U+AB74", "U+AB75", "U+AB76", "U+AB77", "U+AB78", "U+AB79", "U+AB7A",
      "U+AB7B", "U+AB7C", "U+AB7D", "U+AB7E", "U+AB7F", "U+AB80", "U+AB81", "U+AB82",
      "U+AB83", "U+AB84", "U+AB85", "U+AB86", "U+AB87", "U+AB88", "U+AB89", "U+AB8A",
      "U+AB8B", "U+AB8C", "U+AB8D", "U+AB8E", "U+AB8F", "U+AB90", "U+AB91", "U+AB92",
      "U+AB93", "U+AB94", "U+AB95", "U+AB96", "U+AB97", "U+AB98", "U+AB99", "U+AB9A",
      "U+AB9B", "U+AB9C", "U+AB9D", "U+AB9E", "U+AB9F", "U+ABA0", "U+ABA1", "U+ABA2",
      "U+ABA3", "U+ABA4", "U+ABA5", "U+ABA6", "U+ABA7", "U+ABA8", "U+ABA9", "U+ABAA",
      "U+ABAB", "U+ABAC", "U+ABAD", "U+ABAE", "U+ABAF", "U+ABB0", "U+ABB1", "U+ABB2",
      "U+ABB3", "U+ABB4", "U+ABB5", "U+ABB6", "U+ABB7", "U+ABB8", "U+ABB9", "U+ABBA",
      "U+ABBB", "U+ABBC", "U+ABBD", "U+ABBE", "U+ABBF", "U+13F8", "U+13F9", "U+13FA",
      "U+13FB", "U+13FC", "U+13FD", "U+10D0", "U+10D1", "U+10D2", "U+10D3", "U+10D4",
      "U+10D5", "U+10D6", "U+10D7", "U+10D8", "U+10D9", "U+10DA", "U+10DB", "U+10DC",
      "U+10DD", "U+10DE", "U+10DF", "U+10E0", "U+10E1", "U+10E2", "U+10E3", "U+10E4",
      "U+10E5", "U+10E6", "U+10E7", "U+10E8", "U+10E9", "U+10EA", "U+10EB", "U+10EC",
      "U+10ED", "U+10EE", "U+10EF", "U+10F0", "U+10F1", "U+10F2", "U+10F3", "U+10F4",
      "U+10F5", "U+10F6", "U+10F7", "U+10F8", "U+10F9", "U+10FA", "U+10FD", "U+10FE",
      "U+10FF", "U+1E01", "U+1E03", "U+1E05", "U+1E07", "U+1E09", "U+1E0B", "U+1E0D",
      "U+1E0F", "U+1E11", "U+1E13", "U+1E15", "U+1E17", "U+1E19", "U+1E1B", "U+1E1D",
      "U+1E1F", "U+1E21", "U+1E23", "U+1E25", "U+1E27", "U+1E29", "U+1E2B", "U+1E2D",
      "U+1E2F", "U+1E31", "U+1E33", "U+1E35", "U+1E37", "U+1E39", "U+1E3B", "U+1E3D",
      "U+1E3F", "U+1E41", "U+1E43", "U+1E45", "U+1E47", "U+1E49", "U+1E4B", "U+1E4D",
      "U+1E4F", "U+1E51", "U+1E53", "U+1E55", "U+1E57", "U+1E59", "U+1E5B", "U+1E5D",
      "U+1E5F", "U+1E61", "U+1E63", "U+1E65", "U+1E67", "U+1E69", "U+1E6B", "U+1E6D",
      "U+1E6F", "U+1E71", "U+1E73", "U+1E75", "U+1E77", "U+1E79", "U+1E7B", "U+1E7D",
      "U+1E7F", "U+1E81", "U+1E83", "U+1E85", "U+1E87", "U+1E89", "U+1E8B", "U+1E8D",
      "U+1E8F", "U+1E91", "U+1E93", "U+1E95", "U+00DF", "U+1EA1", "U+1EA3", "U+1EA5",
      "U+1EA7", "U+1EA9", "U+1EAB", "U+1EAD", "U+1EAF", "U+1EB1", "U+1EB3", "U+1EB5",
      "U+1EB7", "U+1EB9", "U+1EBB", "U+1EBD", "U+1EBF", "U+1EC1", "U+1EC3", "U+1EC5",
      "U+1EC7", "U+1EC9", "U+1ECB", "U+1ECD", "U+1ECF", "U+1ED1", "U+1ED3", "U+1ED5",
      "U+1ED7", "U+1ED9", "U+1EDB", "U+1EDD", "U+1EDF", "U+1EE1", "U+1EE3", "U+1EE5",
      "U+1EE7", "U+1EE9", "U+1EEB", "U+1EED", "U+1EEF", "U+1EF1", "U+1EF3", "U+1EF5",
      "U+1EF7", "U+1EF9", "U+1EFB", "U+1EFD", "U+1EFF", "U+1F00", "U+1F01", "U+1F02",
      "U+1F03", "U+1F04", "U+1F05", "U+1F06", "U+1F07", "U+1F10", "U+1F11", "U+1F12",
      "U+1F13", "U+1F14", "U+1F15", "U+1F20", "U+1F21", "U+1F22", "U+1F23", "U+1F24",
      "U+1F25", "U+1F26", "U+1F27", "U+1F30", "U+1F31", "U+1F32", "U+1F33", "U+1F34",
      "U+1F35", "U+1F36", "U+1F37", "U+1F40", "U+1F41", "U+1F42", "U+1F43", "U+1F44",
      "U+1F45", "U+1F51", "U+1F53", "U+1F55", "U+1F57", "U+1F60", "U+1F61", "U+1F62",
      "U+1F63", "U+1F64", "U+1F65", "U+1F66", "U+1F67", "U+1F80", "U+1F81", "U+1F82",
      "U+1F83", "U+1F84", "U+1F85", "U+1F86", "U+1F87", "U+1F90", "U+1F91", "U+1F92",
      "U+1F93", "U+1F94", "U+1F95", "U+1F96", "U+1F97", "U+1FA0", "U+1FA1", "U+1FA2",
      "U+1FA3", "U+1FA4", "U+1FA5", "U+1FA6", "U+1FA7", "U+1FB0", "U+1FB1", "U+1F70",
      "U+1F71", "U+1FB3", "U+1F72", "U+1F73", "U+1F74", "U+1F75", "U+1FC3", "U+1FD0",
      "U+1FD1", "U+1F76", "U+1F77", "U+1FE0", "U+1FE1", "U+1F7A", "U+1F7B", "U+1FE5",
      "U+1F78", "U+1F79", "U+1F7C", "U+1F7D", "U+1FF3", "U+03C9", "k", "U+00E5",
      "U+214E", "U+2170", "U+2171", "U+2172", "U+2173", "U+2174", "U+2175", "U+2176",
      "U+2177", "U+2178", "U+2179", "U+217A", "U+217B", "U+217C", "U+217D", "U+217E",
      "U+217F", "U+2184", "U+24D0", "U+24D1", "U+24D2", "U+24D3", "U+24D4", "U+24D5",
      "U+24D6", "U+24D7", "U+24D8", "U+24D9", "U+24DA", "U+24DB", "U+24DC", "U+24DD",
      "U+24DE", "U+24DF", "U+24E0", "U+24E1", "U+24E2", "U+24E3", "U+24E4", "U+24E5",
      "U+24E6", "U+24E7", "U+24E8", "U+24E9", "U+2C30", "U+2C31", "U+2C32", "U+2C33",
      "U+2C34", "U+2C35", "U+2C36", "U+2C37", "U+2C38", "U+2C39", "U+2C3A", "U+2C3B",
      "U+2C3C", "U+2C3D", "U+2C3E", "U+2C3F", "U+2C40", "U+2C41", "U+2C42", "U+2C43",
      "U+2C44", "U+2C45", "U+2C46", "U+2C47", "U+2C48", "U+2C49", "U+2C4A", "U+2C4B",
      "U+2C4C", "U+2C4D", "U+2C4E", "U+2C4F", "U+2C50", "U+2C51", "U+2C52", "U+2C53",
      "U+2C54", "U+2C55", "U+2C56", "U+2C57", "U+2C58", "U+2C59", "U+2C5A", "U+2C5B",
      "U+2C5C", "U+2C5D", "U+2C5E", "U+2C5F", "U+2C61", "U+026B", "U+1D7D", "U+027D",
      "U+2C68", "U+2C6A", "U+2C6C", "U+0251", "U+0271", "U+0250", "U+0252", "U+2C73",
      "U+2C76", "U+023F", "U+0240", "U+2C81", "U+2C83", "U+2C85", "U+2C87", "U+2C89",
      "U+2C8B", "U+2C8D", "U+2C8F", "U+2C91", "U+2C93", "U+2C95", "U+2C97", "U+2C99",
      "U+2C9B", "U+2C9D", "U+2C9F", "U+2CA1", "U+2CA3", "U+2CA5", "U+2CA7", "U+2CA9",
      "U+2CAB", "U+2CAD", "U+2CAF", "U+2CB1", "U+2CB3", "U+2CB5", "U+2CB7", "U+2CB9",
      "U+2CBB", "U+2CBD", "U+2CBF", "U+2CC1", "U+2CC3", "U+2CC5", "U+2CC7", "U+2CC9",
      "U+2CCB", "U+2CCD", "U+2CCF", "U+2CD1", "U+2CD3", "U+2CD5", "U+2CD7", "U+2CD9",
      "U+2CDB", "U+2CDD", "U+2CDF", "U+2CE1", "U+2CE3", "U+2CEC", "U+2CEE", "U+2CF3",
      "U+A641", "U+A643", "U+A645", "U+A647", "U+A649", "U+A64B", "U+A64D", "U+A64F",
      "U+A651", "U+A653", "U+A655", "U+A657", "U+A659", "U+A65B", "U+A65D", "U+A65F",
      "U+A661", "U+A663", "U+A665", "U+A667", "U+A669", "U+A66B", "U+A66D", "U+A681",
      "U+A683", "U+A685", "U+A687", "U+A689", "U+A68B", "U+A68D", "U+A68F", "U+A691",
      "U+A693", "U+A695", "U+A697", "U+A699", "U+A69B", "U+A723", "U+A725", "U+A727",
      "U+A729", "U+A72B", "U+A72D", "U+A72F", "U+A733", "U+A735", "U+A737", "U+A739",
      "U+A73B", "U+A73D", "U+A73F", "U+A741", "U+A743", "U+A745", "U+A747", "U+A749",
      "U+A74B", "U+A74D", "U+A74F", "U+A751", "U+A753", "U+A755", "U+A757", "U+A759",
      "U+A75B", "U+A75D", "U+A75F", "U+A761", "U+A763", "U+A765", "U+A767", "U+A769",
      "U+A76B", "U+A76D", "U+A76F", "U+A77A", "U+A77C", "U+1D79", "U+A77F", "U+A781",
      "U+A783", "U+A785", "U+A787", "U+A78C", "U+0265", "U+A791", "U+A793", "U+A797",
      "U+A799", "U+A79B", "U+A79D", "U+A79F", "U+A7A1", "U+A7A3", "U+A7A5", "U+A7A7",
      "U+A7A9", "U+0266", "U+025C", "U+0261", "U+026C", "U+026A", "U+029E", "U+0287",
      "U+029D", "U+AB53", "U+A7B5", "U+A7B7", "U+A7B9", "U+A7BB", "U+A7BD", "U+A7BF",
      "U+A7C1", "U+A7C3", "U+A794", "U+0282", "U+1D8E", "U+A7C8", "U+A7CA", "U+A7D1",
      "U+A7D7", "U+A7D9", "U+A7F6", "U+FF41", "U+FF42", "U+FF43", "U+FF44", "U+FF45",
      "U+FF46", "U+FF47", "U+FF48", "U+FF49", "U+FF4A", "U+FF4B", "U+FF4C", "U+FF4D",
      "U+FF4E", "U+FF4F", "U+FF50", "U+FF51", "U+FF52", "U+FF53", "U+FF54", "U+FF55",
      "U+FF56", "U+FF57", "U+FF58", "U+FF59", "U+FF5A", "U+10428", "U+10429", "U+1042A",
      "U+1042B", "U+1042C", "U+1042D", "U+1042E", "U+1042F", "U+10430", "U+10431", "U+10432",
      "U+10433", "U+10434", "U+10435", "U+10436", "U+10437", "U+10438", "U+10439", "U+1043A",
      "U+1043B", "U+1043C", "U+1043D", "U+1043E", "U+1043F", "U+10440", "U+10441", "U+10442",
      "U+10443", "U+10444", "U+10445", "U+10446", "U+10447", "U+10448", "U+10449", "U+1044A",
      "U+1044B", "U+1044C", "U+1044D", "U+1044E", "U+1044F", "U+104D8", "U+104D9", "U+104DA",
      "U+104DB", "U+104DC", "U+104DD", "U+104DE", "U+104DF", "U+104E0", "U+104E1", "U+104E2",
      "U+104E3", "U+104E4", "U+104E5", "U+104E6", "U+104E7", "U+104E8", "U+104E9", "U+104EA",
      "U+104EB", "U+104EC", "U+104ED", "U+104EE", "U+104EF", "U+104F0", "U+104F1", "U+104F2",
      "U+104F3", "U+104F4", "U+104F5", "U+104F6", "U+104F7", "U+104F8", "U+104F9", "U+104FA",
      "U+104FB", "U+10597", "U+10598", "U+10599", "U+1059A", "U+1059B", "U+1059C", "U+1059D",
      "U+1059E", "U+1059F", "U+105A0", "U+105A1", "U+105A3", "U+105A4", "U+105A5", "U+105A6",
      "U+105A7", "U+105A8", "U+105A9", "U+105AA", "U+105AB", "U+105AC", "U+105AD", "U+105AE",
      "U+105AF", "U+105B0", "U+105B1", "U+105B3", "U+105B4", "U+105B5", "U+105B6", "U+105B7",
      "U+105B8", "U+105B9", "U+105BB", "U+105BC", "U+10CC0", "U+10CC1", "U+10CC2", "U+10CC3",
      "U+10CC4", "U+10CC5", "U+10CC6", "U+10CC7", "U+10CC8", "U+10CC9", "U+10CCA", "U+10CCB",
      "U+10CCC", "U+10CCD", "U+10CCE", "U+10CCF", "U+10CD0", "U+10CD1", "U+10CD2", "U+10CD3",
      "U+10CD4", "U+10CD5", "U+10CD6", "U+10CD7", "U+10CD8", "U+10CD9", "U+10CDA", "U+10CDB",
      "U+10CDC", "U+10CDD", "U+10CDE", "U+10CDF", "U+10CE0", "U+10CE1", "U+10CE2", "U+10CE3",
      "U+10CE4", "U+10CE5", "U+10CE6", "U+10CE7", "U+10CE8", "U+10CE9", "U+10CEA", "U+10CEB",
      "U+10CEC", "U+10CED", "U+10CEE", "U+10CEF", "U+10CF0", "U+10CF1", "U+10CF2", "U+118C0",
      "U+118C1", "U+118C2", "U+118C3", "U+118C4", "U+118C5", "U+118C6", "U+118C7", "U+118C8",
      "U+118C9", "U+118CA", "U+118CB", "U+118CC", "U+118CD", "U+118CE", "U+118CF", "U+118D0",
      "U+118D1", "U+118D2", "U+118D3", "U+118D4", "U+118D5", "U+118D6", "U+118D7", "U+118D8",
      "U+118D9", "U+118DA", "U+118DB", "U+118DC", "U+118DD", "U+118DE", "U+118DF", "U+16E60",
      "U+16E61", "U+16E62", "U+16E63", "U+16E64", "U+16E65", "U+16E66", "U+16E67", "U+16E68",
      "U+16E69", "U+16E6A", "U+16E6B", "U+16E6C", "U+16E6D", "U+16E6E", "U+16E6F", "U+16E70",
      "U+16E71", "U+16E72", "U+16E73", "U+16E74", "U+16E75", "U+16E76", "U+16E77", "U+16E78",
      "U+16E79", "U+16E7A", "U+16E7B", "U+16E7C", "U+16E7D", "U+16E7E", "U+16E7F", "U+1E922",
      "U+1E923", "U+1E924", "U+1E925", "U+1E926", "U+1E927", "U+1E928", "U+1E929", "U+1E92A",
      "U+1E92B", "U+1E92C", "U+1E92D", "U+1E92E", "U+1E92F", "U+1E930", "U+1E931", "U+1E932",
      "U+1E933", "U+1E934", "U+1E935", "U+1E936", "U+1E937", "U+1E938", "U+1E939", "U+1E93A",
      "U+1E93B", "U+1E93C", "U+1E93D", "U+1E93E", "U+1E93F", "U+1E940", "U+1E941", "U+1E942",
      "U+1E943">>

\* strings.ToLower
ToLower(str) ==
    [n \in DOMAIN str |->
        IF \E c \in DOMAIN UpperCase : UpperCase[c] = str[n]
        THEN LowerCase[CHOOSE c \in DOMAIN UpperCase : UpperCase[c] = str[n]]
        ELSE str[n]]

\* The white space strings.TrimSpace removes (unicode.IsSpace); the vertical
\* tab is written as the character itself and by its code point
IsSpace(c) ==
    c \in {" ", "\t", "\n", "\r", "\f", "", "U+000B", "U+0085", "U+00A0", "U+1680",
           "U+2000", "U+2001", "U+2002", "U+2003", "U+2004", "U+2005", "U+2006",
           "U+2007", "U+2008", "U+2009", "U+200A", "U+2028", "U+2029", "U+202F",
           "U+205F", "U+3000"}

\* strings.TrimSpace
TrimSpace(str) ==
    LET Kept == {n \in DOMAIN str : ~IsSpace(str[n])} IN
    IF Kept = {} THEN <<>>
    ELSE SubSeq(str, CHOOSE n \in Kept : \A m \in Kept : n <= m,
                     CHOOSE n \in Kept : \A m \in Kept : m <= n)

\* strings.ContainsRune
ContainsRune(str, c) == \E n \in DOMAIN str : str[n] = c

\* The index of the first c in a string that contains it
IndexRune(str, c) ==
    CHOOSE n \in DOMAIN str : str[n] = c /\ \A m \in 1..(n - 1) : str[m] # c

\* strings.Split on a one-character separator
RECURSIVE Split(_, _)
Split(str, sep) ==
    IF ~ContainsRune(str, sep) THEN <<str>>
    ELSE LET n == IndexRune(str, sep) IN
         <<SubSeq(str, 1, n - 1)>> \o Split(SubSeq(str, n + 1, Len(str)), sep)

\* strings.SplitN(line, sep, 2) on a line that contains the separator
SplitN2(str, sep) ==
    LET n == IndexRune(str, sep) IN
    <<SubSeq(str, 1, n - 1), SubSeq(str, n + 1, Len(str))>>

\* The map assignment that keeps the value a key already has
Put_KeepExisting(a, key, value) ==
    [k \in DOMAIN a \cup {key} |-> IF k \in DOMAIN a THEN a[k] ELSE value]

\* annotations[key] = value
Put(a, key, value) ==
    [k \in DOMAIN a \cup {key} |-> IF k = key THEN value ELSE a[k]]

\* The loop of parseAnnotations from line i upward
RECURSIVE scanAnnotations(_, _, _)
scanAnnotations(lines, i, a) ==
    IF i = 0 \/ ~ContainsRune(lines[i], ":") THEN a
    ELSE LET parts == SplitN2(lines[i], ":")
             key == TrimSpace(ToLower(parts[1]))
             value == TrimSpace(parts[2])
         IN  scanAnnotations(lines, i - 1, Put(a, key, value))

\* parseAnnotations on the text of the doc comment
parseAnnotations(text) ==
    LET lines == Split(TrimSpace(text), "\n") IN
    scanAnnotations(lines, Len(lines), <<>>)

\* Annotations.Get
Get(a, key) == IF ToLower(key) \in DOMAIN a THEN a[ToLower(key)] ELSE <<>>

\* Annotations.Exists
Exists(a, key) == ToLower(key) \in DOMAIN a

\* Lines of doc comments: "k:a", "K: b", "m :c", "t", "k:a:b", "", "K:", then
\* "K:d" with the Kelvin sign U+212A for K, and "k:e" with a vertical tab on
\* both sides of the key and of the value
DocLines ==
    { <<"k", ":", "a">>, <<"K", ":", " ", "b">>, <<"m", " ", ":", "c">>, <<"t">>,
      <<"k", ":", "a", ":", "b">>, <<>>, <<"K", ":">>,
      <<"U+212A", ":", "d">>,
      <<"", "k", "", ":", "", "e", "">> }

\* The text of a comment: its lines, each ended by a newline
RECURSIVE JoinLines(_)
JoinLines(lines) ==
    IF lines = <<>> THEN <<>> ELSE Head(lines) \o <<"\n">> \o JoinLines(Tail(lines))

DocTexts == {JoinLines(lines) : lines \in SeqsUpTo(DocLines, MaxLines)}

InitAnnotations ==
    /\ pc = "parseAnnotations"
    /\ resolvableTypes = <<>>
    /\ decl = Nil
    /\ inputParams = <<>>
    /\ stack = <<>>
    /\ expanded = <<>>
    /\ endpoint = Nil
    /\ err = NoError
    /\ service = Nil
    /\ endpoints = <<>>
    /\ services = <<>>
    /\ collection = Nil
    /\ comment \in DocTexts
    /\ annotations = Nil

\* parseAnnotations on the comment of a declaration
ParseAnnotations ==
    /\ pc = "parseAnnotations"
    /\ pc' = "parsed"
    /\ annotations' = parseAnnotations(comment)
    /\ UNCHANGED <<resolvableTypes, decl, inputParams, stack, expanded, endpoint, err,
                   pkgVars, comment>>

NextAnnotations == ParseAnnotations

SpecAnnotations == InitAnnotations /\ [][NextAnnotations]_vars

----------------------------------------------------------------------------
(* Vocabulary of the properties *)

\* The declarations of the catalog's resolvers, in registration order
CatalogNames == [k \in DOMAIN resolvableTypes |-> resolvableTypes[k].Resolver.Name]

PayloadSteps(i) == {j \in DOMAIN i : i[j].ParamKind = KindPayloadParam}

\* Every dependency that names a step of the list names an earlier step
TopologicallyOrdered(i) ==
    \A j \in DOMAIN i : \A n \in DOMAIN i[j].InputVars : \A k \in DOMAIN i :
        i[k].VarName = i[j].InputVars[n].VarName => k < j

\* The kind-specific key of a step
StepKey(p) ==
    CASE p.ParamKind = KindStringParam -> <<"string", p.ParamName>>
      [] p.ParamKind = KindConvertParam -> <<"convert", p.ParamName, p.TypeName>>
      [] p.ParamKind = KindResolveParam -> <<"resolve", p.TypeName, p.TypePackage>>
      [] p.ParamKind = KindPayloadParam -> <<"payload", p.TypeName, p.TypePackage>>

\* The declaration is neither rejected, native, resolvable nor built-in, so that
\* resolveParam hands it to resolvePayloadParam
IsPayloadDecl(d) ==
    /\ d.PointerDepth <= 1
    /\ resolveNativeParam(d) = Nil
    /\ ~\E k \in DOMAIN resolvableTypes :
          /\ resolvableTypes[k].TypeName = d.TypeName
          /\ resolvableTypes[k].TypePackage = d.TypePackage
    /\ ~d.IsBuiltIn

\* The declaration's type identity has a catalog entry
IsResolvable(d) ==
    \E k \in DOMAIN resolvableTypes :
        /\ resolvableTypes[k].TypeName = d.TypeName
        /\ resolvableTypes[k].TypePackage = d.TypePackage

\* The kind-specific key of the step a declaration is resolved to; none for a
\* rejected or a native declaration
DeclKey(d) ==
    IF d.PointerDepth > 1 \/ resolveNativeParam(d) # Nil THEN <<"none">>
    ELSE IF IsResolvable(d) THEN <<"resolve", d.TypeName, d.TypePackage>>
    ELSE IF d.IsBuiltIn /\ d.TypeName = "string" THEN <<"string", d.Name>>
    ELSE IF d.IsBuiltIn THEN <<"convert", d.Name, d.TypeName>>
    ELSE <<"payload", d.TypeName, d.TypePackage>>

\* A built-in declaration that is resolved from the path
IsPathDecl(d) == DeclKey(d)[1] \in {"string", "convert"}

\* The call sites resolved so far: a declaration and the InputVar resolveParam
\* returned for it, in the active resolveParams calls, in the resolve steps
\* (the resolver's inputs and the step's dependencies) and in the endpoint
CallSites ==
    UNION {{<<stack[f].decls[j], stack[f].inputVars[j]>> :
                j \in DOMAIN stack[f].inputVars} : f \in DOMAIN stack}
    \cup UNION {{<<FindResolver(resolvableTypes, inputParams[j]).rt.Resolver.InputParams[n],
                   inputParams[j].InputVars[n]>> : n \in DOMAIN inputParams[j].InputVars} :
                j \in {k \in DOMAIN inputParams : inputParams[k].ParamKind = KindResolveParam}}
    \cup (IF endpoint = Nil THEN {}
          ELSE {<<decl.InputParams[j], endpoint.InputVars[j]>> :
                    j \in DOMAIN endpoint.InputVars})

\* The InputVar the call of resolveParam that just returned handed to its caller
Returned == stack'[Len(stack')].inputVars[Len(stack'[Len(stack')].inputVars)]

\* How often a type identity occurs in a sequence of identities
Occurrences(seq, t) == Cardinality({n \in DOMAIN seq : seq[n] = t})

\* resolveParam is about to run, on the declaration Current
Calling == pc = "resolveParams" /\ Top.k <= Len(Top.decls)

Current == Top.decls[Top.k]

----------------------------------------------------------------------------
(* C1. Topological order: in the step list of a returned endpoint, after the *)
(* payload step was moved last, every dependency that references a step's   *)
(* variable identifier belongs to a step at a strictly lower index than the  *)
(* depending step.                                                           *)
C1_TopologicalOrder ==
    endpoint # Nil => TopologicallyOrdered(endpoint.InputParams)

(* C2. Payload singularity: in every reachable state the shared step list,   *)
(* and the step list of the returned endpoint, hold at most one payload step.*)
C2_PayloadSingularity ==
    /\ Cardinality(PayloadSteps(inputParams)) <= 1
    /\ endpoint # Nil => Cardinality(PayloadSteps(endpoint.InputParams)) <= 1

\* A payload type was requested by a resolver and by the endpoint itself, and
\* the endpoint returned with one payload step that both reference
C2_Witness ==
    /\ pc = "done"
    /\ CatalogNames = <<"UserOfPayload">>
    /\ decl.InputParams = <<UserT("u", 1), PayloadT("a", "app")>>
    /\ Cardinality(PayloadSteps(endpoint.InputParams)) = 1
    /\ endpoint.InputVars[2].VarName = "param0"
    /\ endpoint.InputParams[1].InputVars = <<InputVar("param0", 0)>>

(* C3. Payload conflict: when the step list holds a payload step and         *)
(* resolveParam hands resolvePayloadParam a declaration whose (type name,    *)
(* type package) differs from that step's, the call fails with the error     *)
(* naming the requested parameter and the parameter that claims the payload, *)
(* no step is appended and analyzeEndpoint returns no endpoint.              *)
C3_PayloadConflict ==
    [][\A j \in DOMAIN inputParams :
          (/\ Calling
           /\ IsPayloadDecl(Current)
           /\ inputParams[j].ParamKind = KindPayloadParam
           /\ <<inputParams[j].TypeName, inputParams[j].TypePackage>>
                 # <<Current.TypeName, Current.TypePackage>>)
          => /\ pc' = "failed"
             /\ err' = "cannot resolve param " \o Current.Name \o ", because "
                       \o inputParams[j].ParamName \o " is already claiming the payload"
             /\ inputParams' = inputParams
             /\ endpoint' = Nil]_vars

\* Parameters (a app.Payload, c lib.Payload) failed on c, naming c and a
C3_Witness ==
    /\ pc = "failed"
    /\ decl # Nil
    /\ decl.InputParams = <<PayloadT("a", "app"), PayloadT("c", "lib")>>
    /\ err = "cannot resolve param c, because a is already claiming the payload"
    /\ Len(inputParams) = 1
    /\ endpoint = Nil

(* C4. Payload ordering: if the step list of a returned endpoint holds a     *)
(* payload step, that step is the last element of the list.                  *)
C4_PayloadLast ==
    endpoint # Nil =>
        \A j \in PayloadSteps(endpoint.InputParams) : j = Len(endpoint.InputParams)

\* The payload step was created first, before two other steps, and ends last
C4_Witness ==
    /\ pc = "done"
    /\ Len(endpoint.InputParams) = 3
    /\ endpoint.InputParams[3].ParamKind = KindPayloadParam
    /\ endpoint.InputParams[3].VarName = "param0"

(* C5. Deduplication: in every reachable state no two steps of the step list *)
(* share a kind-specific key: one string step per parameter name, one        *)
(* convert step per (parameter name, type name), one resolve step and one    *)
(* payload step per (type name, type package).                               *)
C5_Deduplicated ==
    \A j, k \in DOMAIN inputParams :
        StepKey(inputParams[j]) = StepKey(inputParams[k]) => j = k

\* User needs Session and id, Session needs id, the endpoint asks for both: the
\* string, convert and Session steps were each requested twice and exist once
C5_Witness ==
    /\ pc = "done"
    /\ CatalogNames = <<"UserOfSession", "SessionById">>
    /\ decl.InputParams = <<UserT("u", 1), SessionT("s", 0)>>
    /\ [j \in DOMAIN inputParams |-> StepKey(inputParams[j])]
          = << <<"string", "id">>, <<"convert", "id", "int">>,
               <<"resolve", "Session", "app">>, <<"resolve", "User", "app">> >>

(* C6. Reuse of variable identifiers, as the claim states it: every call     *)
(* site references the step that carries its kind-specific key, and two      *)
(* built-in parameters with the same name in one endpoint yield one string   *)
(* step and reference the same identifier.                                   *)
C6_SameNameSameIdentifier ==
    /\ \A c \in CallSites : \A j \in DOMAIN inputParams :
          StepKey(inputParams[j]) = DeclKey(c[1]) => c[2].VarName = inputParams[j].VarName
    /\ \A c1, c2 \in CallSites :
          (IsPathDecl(c1[1]) /\ IsPathDecl(c2[1]) /\ c1[1].Name = c2[1].Name)
          => /\ Cardinality({j \in DOMAIN inputParams :
                    StepKey(inputParams[j]) = <<"string", c1[1].Name>>}) = 1
             /\ c1[2].VarName = c2[2].VarName

(* C6, amended. Whenever resolveParam is called for a parameter that is not  *)
(* rejected and whose kind-specific key is already in the step list, the     *)
(* returned reference carries the identifier of the existing step and the    *)
(* list is unchanged; two built-in parameters with the same name yield one   *)
(* string step, and reference the same identifier when they also have the    *)
(* same type name (a string and an int parameter named alike reference the   *)
(* string step and the convert step).                                        *)
C6_ReuseIdentifier ==
    /\ [][\A j \in DOMAIN inputParams :
            (Calling /\ StepKey(inputParams[j]) = DeclKey(Current))
            => /\ pc' = "resolveParams"
               /\ Len(stack') = Len(stack)
               /\ Returned.VarName = inputParams[j].VarName
               /\ inputParams' = inputParams]_vars
    /\ [](\A c1, c2 \in CallSites :
            (IsPathDecl(c1[1]) /\ IsPathDecl(c2[1]) /\ c1[1].Name = c2[1].Name)
            => /\ Cardinality({j \in DOMAIN inputParams :
                      StepKey(inputParams[j]) = <<"string", c1[1].Name>>}) = 1
               /\ c1[1].TypeName = c2[1].TypeName => c1[2].VarName = c2[2].VarName)

\* The endpoint and a nested resolver both declare id string, and both call
\* sites got param0, the one string step
C6_Witness ==
    /\ pc = "done"
    /\ CatalogNames = <<"UserById">>
    /\ decl.InputParams = <<StringT("id", 0), UserT("u", 1)>>
    /\ endpoint.InputVars[1].VarName = "param0"
    /\ endpoint.InputParams[2].InputVars = <<InputVar("param0", 0)>>
    /\ Cardinality({j \in DOMAIN inputParams :
           inputParams[j].ParamKind = KindStringParam}) = 1

(* C7. Resolver dedup: a request for a resolvable type whose resolve step    *)
(* exists leaves the step list unchanged and resolves no resolver input; a   *)
(* returned endpoint holds exactly one resolve step for every type identity  *)
(* that was expanded, and the resolver's inputs were resolved exactly once.  *)
C7_ResolverDedup ==
    /\ [][\A j \in DOMAIN inputParams :
            (/\ Calling
             /\ DeclKey(Current)[1] = "resolve"
             /\ StepKey(inputParams[j]) = DeclKey(Current))
            => /\ inputParams' = inputParams
               /\ expanded' = expanded
               /\ Len(stack') = Len(stack)]_vars
    /\ [](endpoint # Nil =>
            /\ \A n \in DOMAIN expanded :
                  /\ Occurrences(expanded, expanded[n]) = 1
                  /\ Cardinality({j \in DOMAIN endpoint.InputParams :
                         StepKey(endpoint.InputParams[j])
                            = <<"resolve", expanded[n][1], expanded[n][2]>>}) = 1
            /\ \A j \in DOMAIN endpoint.InputParams :
                  endpoint.InputParams[j].ParamKind = KindResolveParam
                  => Occurrences(expanded, <<endpoint.InputParams[j].TypeName,
                                             endpoint.InputParams[j].TypePackage>>) = 1)

\* Session is requested by the resolver of User and then by the endpoint:
\* one Session step, one expansion, both requests reference it
C7_Witness ==
    /\ pc = "done"
    /\ CatalogNames = <<"UserOfSession", "SessionById">>
    /\ decl.InputParams = <<UserT("u", 1), SessionT("s", 0)>>
    /\ expanded = << <<"User", "app">>, <<"Session", "app">> >>
    /\ endpoint.InputVars[2].VarName = "param2"
    /\ endpoint.InputParams[4].InputVars[1].VarName = "param2"

(* C8. Pointer rejection: resolveParam on a declaration with pointer depth   *)
(* >= 2, an endpoint parameter or a resolver input reached by expansion,     *)
(* whatever its type, fails with the error that names the parameter, and     *)
(* analyzeEndpoint returns no endpoint.                                      *)
C8_PointerRejection ==
    [][(Calling /\ Current.PointerDepth >= 2)
       => /\ pc' = "failed"
          /\ err' = Current.Name \o ": pointers of pointers are not supported"
          /\ inputParams' = inputParams
          /\ endpoint' = Nil]_vars

\* A resolver input **net/http.Request, reached by expanding Session, failed
C8_Witness ==
    /\ pc = "failed"
    /\ CatalogNames = <<"SessionOfRequest">>
    /\ expanded = << <<"Session", "app">> >>
    /\ err = "r: pointers of pointers are not supported"
    /\ endpoint = Nil

\* The error type of the output contract: the built-in error
IsErrorType(o) == o.IsBuiltIn /\ o.TypeName = "error"

\* analyzeEndpoint returned an endpoint classified (value, error)
Classified(value, error) ==
    /\ pc = "done"
    /\ err = NoError
    /\ endpoint.ReturnsValue = value
    /\ endpoint.ReturnsError = error

\* analyzeEndpoint returned an error and no endpoint
Rejected == pc = "failed" /\ err # NoError /\ endpoint = Nil

(* C9. Output classification: analyzeEndpointOutput gives (value, error) =   *)
(* (false, false) for no output, (true, false) for one non-error output,     *)
(* (false, true) for one error output, (true, true) for [value, error], and  *)
(* an error for [value, value] and for three or more outputs.                *)
C9_OutputClassification ==
    pc \in {"done", "failed"} =>
        LET o == decl.OutputParams IN
        /\ Len(o) = 0 => Classified(FALSE, FALSE)
        /\ (Len(o) = 1 /\ ~IsErrorType(o[1])) => Classified(TRUE, FALSE)
        /\ (Len(o) = 1 /\ IsErrorType(o[1])) => Classified(FALSE, TRUE)
        /\ (Len(o) = 2 /\ ~IsErrorType(o[1]) /\ IsErrorType(o[2])) => Classified(TRUE, TRUE)
        /\ (Len(o) = 2 /\ ~IsErrorType(o[1]) /\ ~IsErrorType(o[2])) => Rejected
        /\ Len(o) >= 3 => Rejected

\* An endpoint returning [value, value] was rejected
C9_Witness ==
    /\ pc = "failed"
    /\ decl.OutputParams = <<UserT("", 0), StringT("", 0)>>
    /\ err = "the second return value must be of type error"

\* A resolver's output list has one of the two accepted shapes
Accepted(d) ==
    LET o == d.OutputParams IN
    \/ Len(o) = 1 /\ ~IsErrorType(o[1])
    \/ Len(o) = 2 /\ IsErrorType(o[2])

(* C10. Resolver catalog shape: analyzeResolver accepts a resolver exactly   *)
(* when it has one output that is not the error type (ReturnsError false) or *)
(* two outputs whose second is the error type (ReturnsError true); every     *)
(* other declaration yields an error; the accepted entry is keyed by the     *)
(* first output's (type name, type package) and records its pointer depth.   *)
(* Stated of the declaration analyzeResolvers analyzed last.                 *)
C10_CatalogShape ==
    decl # Nil =>
        IF Accepted(decl)
        THEN /\ pc = "analyzeResolvers"
             /\ err = NoError
             /\ resolvableTypes[Len(resolvableTypes)] =
                    [TypeName |-> decl.OutputParams[1].TypeName,
                     TypePackage |-> decl.OutputParams[1].TypePackage,
                     Resolver |-> decl,
                     ReturnsError |-> Len(decl.OutputParams) = 2,
                     ReturnsPointer |-> decl.OutputParams[1].PointerDepth]
        ELSE /\ pc = "failed"
             /\ err # NoError
             /\ \A k \in DOMAIN resolvableTypes : resolvableTypes[k].Resolver # decl

\* A resolver returning (*User, error) was accepted after one returning a
\* package's own error type: entries keyed by type, pointer depth recorded
C10_Witness ==
    /\ pc = "analyzeResolvers"
    /\ Len(resolvableTypes) = 2
    /\ resolvableTypes[1].Resolver.OutputParams = <<Param("", "error", "app", 0, FALSE)>>
    /\ resolvableTypes[1].ReturnsError = FALSE
    /\ resolvableTypes[2].Resolver.OutputParams = <<UserT("", 1), ErrorT>>
    /\ resolvableTypes[2].TypeName = "User"
    /\ resolvableTypes[2].TypePackage = "app"
    /\ resolvableTypes[2].ReturnsError = TRUE
    /\ resolvableTypes[2].ReturnsPointer = 1

----------------------------------------------------------------------------
\* The catalog entry registered first for a type identity
FirstRegistered(typeName, typePackage) ==
    LET Matches == {k \in DOMAIN resolvableTypes :
                        /\ resolvableTypes[k].TypeName = typeName
                        /\ resolvableTypes[k].TypePackage = typePackage}
    IN  resolvableTypes[CHOOSE k \in Matches : \A n \in Matches : k <= n]

\* Two catalog entries produce the same type identity
DuplicateRegistration ==
    \E j, k \in DOMAIN resolvableTypes :
        /\ j < k
        /\ resolvableTypes[j].TypeName = resolvableTypes[k].TypeName
        /\ resolvableTypes[j].TypePackage = resolvableTypes[k].TypePackage

(* C15. Nothing depends on a payload step: in the step list under            *)
(* construction and in the step list of the returned endpoint, no step's     *)
(* dependency list contains the variable identifier of a payload step, for   *)
(* every resolver catalog.                                                   *)
C15_NothingDependsOnPayload ==
    /\ \A j \in PayloadSteps(inputParams) : \A k \in DOMAIN inputParams :
          \A n \in DOMAIN inputParams[k].InputVars :
              inputParams[k].InputVars[n].VarName # inputParams[j].VarName
    /\ endpoint # Nil =>
          \A j \in PayloadSteps(endpoint.InputParams) : \A k \in DOMAIN endpoint.InputParams :
              \A n \in DOMAIN endpoint.InputParams[k].InputVars :
                  endpoint.InputParams[k].InputVars[n].VarName
                      # endpoint.InputParams[j].VarName

(* C19. Duplicate resolver registration: when several catalog entries        *)
(* produce the same (type name, type package), every resolver expansion in   *)
(* progress uses the entry registered first and every resolve step of that   *)
(* type, in the list under construction and in the returned endpoint, names  *)
(* the resolver registered first; a later one is never used.                 *)
C19_FirstRegistered ==
    /\ \A f \in DOMAIN stack :
          stack[f].rt # Nil =>
              stack[f].rt = FirstRegistered(stack[f].rt.TypeName, stack[f].rt.TypePackage)
    /\ \A j \in DOMAIN inputParams :
          inputParams[j].ParamKind = KindResolveParam =>
              inputParams[j].Resolver =
                  FirstRegistered(inputParams[j].TypeName,
                                  inputParams[j].TypePackage).Resolver.Name
    /\ endpoint # Nil =>
          \A j \in DOMAIN endpoint.InputParams :
              endpoint.InputParams[j].ParamKind = KindResolveParam =>
                  endpoint.InputParams[j].Resolver =
                      FirstRegistered(endpoint.InputParams[j].TypeName,
                                      endpoint.InputParams[j].TypePackage).Resolver.Name

\* UserById and UserOfUser both produce app.User; the endpoint's *User was
\* resolved by UserById, registered first, and UserOfUser was not expanded
C19_Witness ==
    /\ pc = "done"
    /\ DuplicateRegistration
    /\ CatalogNames = <<"UserById", "UserOfUser">>
    /\ decl.InputParams = <<UserT("u", 1)>>
    /\ endpoint.InputParams[2].ParamKind = KindResolveParam
    /\ endpoint.InputParams[2].Resolver = "UserById"
    /\ expanded = << <<"User", "app">> >>

----------------------------------------------------------------------------
\* The three native parameter types
IsNativeDecl(d) ==
    \/ d.TypeName = "Request" /\ d.TypePackage = "net/http" /\ d.PointerDepth = 1
    \/ d.TypeName = "ResponseWriter" /\ d.TypePackage = "net/http" /\ d.PointerDepth = 0
    \/ d.TypeName = "Context" /\ d.TypePackage = "context" /\ d.PointerDepth = 0

\* The fixed references of the native parameters
NativeVars == {InputVar("r", 0), InputVar("w", 0), InputVar("r.Context()", 0)}

\* The steps of the list that carry the variable identifier of a reference
StepsOf(v) == {j \in DOMAIN inputParams : inputParams[j].VarName = v.VarName}

(* C16. Resolution precedence: resolveParam rejects a declaration of pointer *)
(* depth above 1 before anything else, without touching the step list; every *)
(* declaration it resolved has pointer depth at most 1 and was served by the *)
(* first of native, resolver lookup, built-in, payload that applies: a       *)
(* native declaration got its fixed reference and no step; otherwise a       *)
(* declaration whose type identity has a catalog entry got a resolve step of *)
(* that identity, built-in or not; otherwise a built-in declaration got a    *)
(* string or convert step of its name; otherwise it got the payload step.    *)
C16_Precedence ==
    /\ [][Calling /\ Current.PointerDepth > 1 =>
              pc' = "failed" /\ inputParams' = inputParams]_vars
    /\ [](\A c \in CallSites :
            LET d == c[1]  v == c[2] IN
            /\ d.PointerDepth <= 1
            /\ IF IsNativeDecl(d)
               THEN v \in NativeVars /\ StepsOf(v) = {}
               ELSE /\ StepsOf(v) # {}
                    /\ \A j \in StepsOf(v) :
                          IF IsResolvable(d)
                          THEN /\ inputParams[j].ParamKind = KindResolveParam
                               /\ inputParams[j].TypeName = d.TypeName
                               /\ inputParams[j].TypePackage = d.TypePackage
                          ELSE IF d.IsBuiltIn
                          THEN /\ inputParams[j].ParamKind
                                      \in {KindStringParam, KindConvertParam}
                               /\ inputParams[j].ParamName = d.Name
                          ELSE inputParams[j].ParamKind = KindPayloadParam)

\* With resolvers producing int and context.Context registered, the endpoint's
\* id int got a resolve step and its context.Context the fixed reference
C16_Witness ==
    /\ pc = "done"
    /\ CatalogNames = <<"IntOfRequest", "ContextOfId">>
    /\ decl.InputParams = <<IntT("id", 0), ContextT("ctx", 0)>>
    /\ Len(endpoint.InputParams) = 1
    /\ endpoint.InputParams[1].ParamKind = KindResolveParam
    /\ endpoint.InputParams[1].TypeName = "int"
    /\ endpoint.InputParams[1].InputVars = <<InputVar("r", 0)>>
    /\ endpoint.InputVars = <<InputVar("param0", 0), InputVar("r.Context()", 0)>>

(* C20. Pointer-depth adjustment: every variable reference that resolver     *)
(* expansion returned, for a new resolve step or for a reused one, has       *)
(* PointerDepth = the requested declaration's pointer depth minus the        *)
(* pointer depth of the value the first-registered resolver of its type      *)
(* produces; the result lies in {-1, 0, 1} when the produced depth is at     *)
(* most 1.                                                                   *)
C20_PointerDepth ==
    \A c \in CallSites :
        LET d == c[1]  v == c[2] IN
        ~IsNativeDecl(d) /\ IsResolvable(d) =>
            LET rt == FirstRegistered(d.TypeName, d.TypePackage) IN
            /\ v.PointerDepth = d.PointerDepth - rt.ReturnsPointer
            /\ rt.ReturnsPointer <= 1 => v.PointerDepth \in {-1, 0, 1}

\* UserRef produces *User: the endpoint's u User created the resolve step and
\* got depth -1, its v *User reused the step and got depth 0
C20_Witness ==
    /\ pc = "done"
    /\ CatalogNames = <<"UserRef">>
    /\ decl.InputParams = <<UserT("u", 0), UserT("v", 1)>>
    /\ expanded = << <<"User", "app">> >>
    /\ endpoint.InputVars = <<InputVar("param2", -1), InputVar("param2", 0)>>

----------------------------------------------------------------------------
\* The reference v serves the declaration d: the fixed reference of a native
\* declaration, else the identifier of the step with the declaration's key
Serves(d, v) ==
    IF IsNativeDecl(d)
    THEN v = (CASE d.TypeName = "Request" -> InputVar("r", 0)
                [] d.TypeName = "ResponseWriter" -> InputVar("w", 0)
                [] d.TypeName = "Context" -> InputVar("r.Context()", 0))
    ELSE \E j \in StepsOf(v) : StepKey(inputParams[j]) = DeclKey(d)

\* The parameters (name string, id int, w ResponseWriter, r *Request)
ScenarioA == <<StringT("name", 0), IntT("id", 0), ResponseWriterT("w", 0), RequestT("r", 1)>>

(* C13. Call-site wiring: every resolveParams call in progress holds one     *)
(* variable reference for each declaration it has passed, the j-th serving   *)
(* the j-th declaration; a returned endpoint holds exactly one reference per *)
(* input declaration, in declaration order; and the endpoint with the        *)
(* parameters (name string, id int, w ResponseWriter, r *Request) returns    *)
(* the steps [string name -> param0, string id -> param1, convert id/int     *)
(* deps [param1] -> param2] and the references [param0, param2, w, r].       *)
C13_CallSiteWiring ==
    /\ \A f \in DOMAIN stack :
          /\ Len(stack[f].inputVars) = stack[f].k - 1
          /\ \A j \in DOMAIN stack[f].inputVars :
                Serves(stack[f].decls[j], stack[f].inputVars[j])
    /\ pc = "done" =>
          /\ Len(endpoint.InputVars) = Len(decl.InputParams)
          /\ \A j \in DOMAIN endpoint.InputVars :
                Serves(decl.InputParams[j], endpoint.InputVars[j])
    /\ pc = "done" /\ decl.InputParams = ScenarioA =>
          /\ endpoint.InputParams =
                << [InputParam(KindStringParam, "name", "string", "", <<>>, "", FALSE)
                        EXCEPT !.VarName = "param0"],
                   [InputParam(KindStringParam, "id", "string", "", <<>>, "", FALSE)
                        EXCEPT !.VarName = "param1"],
                   [InputParam(KindConvertParam, "id", "int", "",
                               <<InputVar("param1", 0)>>, "", TRUE)
                        EXCEPT !.VarName = "param2"] >>
          /\ endpoint.InputVars = <<InputVar("param0", 0), InputVar("param2", 0),
                                    InputVar("w", 0), InputVar("r", 0)>>

\* The endpoint (name string, id int, w ResponseWriter, r *Request) returned
\* with three steps and four references
C13_Witness ==
    /\ pc = "done"
    /\ decl.InputParams = ScenarioA
    /\ Len(endpoint.InputParams) = 3
    /\ Len(endpoint.InputVars) = 4
    /\ endpoint.InputVars[2].VarName = "param2"

----------------------------------------------------------------------------
\* The catalog entry j is the one FindResolver returns for its type identity
Selected(j) ==
    resolvableTypes[j] = FirstRegistered(resolvableTypes[j].TypeName,
                                         resolvableTypes[j].TypePackage)

\* The catalog entries whose expansion the inputs of entry j request
Requests(j) ==
    {k \in DOMAIN resolvableTypes :
        /\ Selected(k)
        /\ \E n \in DOMAIN resolvableTypes[j].Resolver.InputParams :
              LET d == resolvableTypes[j].Resolver.InputParams[n] IN
              /\ d.PointerDepth <= 1
              /\ ~IsNativeDecl(d)
              /\ d.TypeName = resolvableTypes[k].TypeName
              /\ d.TypePackage = resolvableTypes[k].TypePackage}

\* The catalog entries that produce the type of an input of entry j
Producers(j) ==
    {k \in DOMAIN resolvableTypes :
        \E n \in DOMAIN resolvableTypes[j].Resolver.InputParams :
            /\ resolvableTypes[j].Resolver.InputParams[n].TypeName
                   = resolvableTypes[k].TypeName
            /\ resolvableTypes[j].Resolver.InputParams[n].TypePackage
                   = resolvableTypes[k].TypePackage}

\* The entries reached from the set S along Edge in at most n further steps
RECURSIVE Reach(_, _, _)
Reach(Edge(_), S, n) ==
    IF n = 0 THEN S
    ELSE Reach(Edge, S \cup UNION {Edge(j) : j \in S}, n - 1)

\* The selected resolver of the type identity t transitively requests t
OnCycle(t) ==
    \E j \in DOMAIN resolvableTypes :
        /\ Selected(j)
        /\ <<resolvableTypes[j].TypeName, resolvableTypes[j].TypePackage>> = t
        /\ j \in Reach(Requests, Requests(j), Len(resolvableTypes))

\* The resolver dependency graph of the catalog has no cycle
Acyclic ==
    \A j \in DOMAIN resolvableTypes :
        j \notin Reach(Producers, Producers(j), Len(resolvableTypes))

\* The expansion of a type on a cycle has begun
CycleEntered == \E n \in DOMAIN expanded : OnCycle(expanded[n])

\* A type is requested inside its own expansion
CycleClosed ==
    \E f, g \in DOMAIN stack :
        /\ f < g
        /\ stack[f].rt # Nil
        /\ stack[g].rt # Nil
        /\ stack[f].rt.TypeName = stack[g].rt.TypeName
        /\ stack[f].rt.TypePackage = stack[g].rt.TypePackage

\* The errors resolveParam itself reports, on the declarations d and the
\* payload owners p of a universe of declarations
RejectionErrors(decls) ==
    {d.Name \o ": pointers of pointers are not supported" : d \in decls}
    \cup {"cannot resolve param " \o d.Name \o ", because " \o p.Name
              \o " is already claiming the payload" : d \in decls, p \in decls}

\* The declarations resolveParam can meet in the catalogs with cycles
CycleDecls ==
    CycleParamDecls
    \cup UNION {{d.InputParams[n] : n \in DOMAIN d.InputParams} : d \in CycleResolverDecls}

(* C17 as stated. Once the expansion of a type whose resolver transitively   *)
(* requires that type has begun, resolution never terminates: the pass       *)
(* neither returns an endpoint nor fails.                                    *)
C17_CycleNeverTerminates == CycleEntered => pc = "resolveParams"

(* C17. No cycle detection: the step list never holds a resolve step of a    *)
(* type whose first-registered resolver transitively requires that type;     *)
(* once the expansion of such a type has begun the pass never returns an     *)
(* endpoint, and if it fails, it fails with the pointer rejection or the     *)
(* payload conflict of an input resolved before the cycle closed, never with *)
(* a cycle error; once a type is requested inside its own expansion the      *)
(* recursion is never left: no failure, no return.                           *)
C17_NoCycleDetection ==
    /\ [][CycleClosed => CycleClosed' /\ pc' = "resolveParams" /\ err' = NoError]_vars
    /\ [](/\ \A j \in DOMAIN inputParams :
               inputParams[j].ParamKind = KindResolveParam =>
                   ~OnCycle(<<inputParams[j].TypeName, inputParams[j].TypePackage>>)
          /\ CycleEntered =>
               /\ pc \in {"resolveParams", "failed"}
               /\ endpoint = Nil
               /\ pc = "failed" => err \in RejectionErrors(CycleDecls))

\* UserOfSession needs a Session and SessionOfUser needs a User: the endpoint's
\* *User is being expanded inside its own expansion, no resolve step exists
C17_Witness ==
    /\ CatalogNames = <<"UserOfSession", "SessionOfUser">>
    /\ decl.InputParams = <<UserT("u", 1)>>
    /\ CycleClosed
    /\ Len(stack) = MaxDepth
    /\ expanded[1] = <<"User", "app">>
    /\ expanded[Len(expanded)] = <<"User", "app">>
    /\ inputParams = <<>>

(* C18. Termination on acyclic input: every run of the pass on which the     *)
(* resolver dependency graph (resolver -> resolvers producing the types of   *)
(* its inputs) stays without a cycle ends, with an endpoint or an error.     *)
C18_Termination == <>(pc \in {"done", "failed"} \/ ~Acyclic)

\* UserOfSession needs a Session, SessionById needs none of them: the nested
\* expansions returned and the endpoint was built
C18_Witness ==
    /\ pc = "done"
    /\ Acyclic
    /\ CatalogNames = <<"UserOfSession", "SessionById">>
    /\ decl.InputParams = <<UserT("u", 1)>>
    /\ expanded = << <<"User", "app">>, <<"Session", "app">> >>
    /\ Len(endpoint.InputParams) = 4

----------------------------------------------------------------------------
\* The lines parseAnnotations scans
CommentLines == Split(TrimSpace(comment), "\n")

\* The trailing lines that all contain the separator: the annotation lines
AnnotationLines ==
    {i \in DOMAIN CommentLines :
        \A j \in i..Len(CommentLines) : ContainsRune(CommentLines[j], ":")}

\* The lower-cased key and the value of an annotation line
KeyOf(line) == TrimSpace(ToLower(SplitN2(line, ":")[1]))

ValueOf(line) == TrimSpace(SplitN2(line, ":")[2])

\* The annotation lines with the key of line i
SameKey(i) == {j \in AnnotationLines : KeyOf(CommentLines[j]) = KeyOf(CommentLines[i])}

\* Several annotation lines carry the same key
DuplicateKeys == \E i \in AnnotationLines : Cardinality(SameKey(i)) > 1

(* C14 as stated. Annotation duplicate keys: the value kept for a key is the *)
(* value of the first annotation line encountered with that key, the one on  *)
(* the last physical line.                                                   *)
C14_LastPhysicalLineKept ==
    pc = "parsed" =>
        \A i \in AnnotationLines :
            annotations[KeyOf(CommentLines[i])] =
                ValueOf(CommentLines[CHOOSE j \in SameKey(i) : \A n \in SameKey(i) : n <= j])

(* C14. Annotation duplicate keys: parseAnnotations returns exactly the      *)
(* lower-cased keys of the trailing annotation lines, and the value kept for *)
(* a key that occurs on several annotation lines is the value of the last    *)
(* one scanned, the one on the topmost physical line: every higher line      *)
(* overwrites the value; Get and Exists find it under any case of the key.   *)
C14_TopmostLineKept ==
    pc = "parsed" =>
        /\ DOMAIN annotations = {KeyOf(CommentLines[i]) : i \in AnnotationLines}
        /\ \A i \in AnnotationLines :
              LET top == CHOOSE j \in SameKey(i) : \A n \in SameKey(i) : j <= n
                  key == TrimSpace(SplitN2(CommentLines[i], ":")[1])
              IN  /\ annotations[KeyOf(CommentLines[i])] = ValueOf(CommentLines[top])
                  /\ Exists(annotations, key)
                  /\ Get(annotations, key) = ValueOf(CommentLines[top])

\* The comment "k:a" / "K: b" was parsed: one key k, with the value a of the
\* upper line
C14_Witness ==
    /\ pc = "parsed"
    /\ comment = <<"k", ":", "a", "\n", "K", ":", " ", "b", "\n">>
    /\ DuplicateKeys
    /\ DOMAIN annotations = {<<"k">>}
    /\ annotations[<<"k">>] = <<"a">>

----------------------------------------------------------------------------
\* The resolve steps of the returned collection, walking services, endpoints
\* and steps in order
ResolveWalk ==
    SelectSeq(stepsOfServices(collection.Services),
              LAMBDA p : p.ParamKind = KindResolveParam)

\* The positions of the walk where a type identity occurs for the first time
FirstUses ==
    {i \in DOMAIN ResolveWalk :
        \A j \in 1..(i - 1) :
            <<ResolveWalk[j].TypeName, ResolveWalk[j].TypePackage>>
                # <<ResolveWalk[i].TypeName, ResolveWalk[i].TypePackage>>}

\* The n-th smallest element of a set of numbers
NthOf(S, n) == CHOOSE i \in S : Cardinality({j \in S : j < i}) = n - 1

(* C11. Resolver manifest: the Resolvers of a returned collection hold       *)
(* exactly one entry for each distinct (type name, type package) of the      *)
(* resolve steps of its endpoints, ordered by first occurrence in the walk   *)
(* over services, endpoints and steps; the entry carries the name of the     *)
(* resolver of that type, a resolver of the catalog whose type no step       *)
(* references has no entry.                                                  *)
C11_ResolverManifest ==
    collection # Nil =>
        /\ Len(collection.Resolvers) = Cardinality(FirstUses)
        /\ \A n \in DOMAIN collection.Resolvers :
              collection.Resolvers[n] =
                  [TypeName |-> ResolveWalk[NthOf(FirstUses, n)].Resolver]
        /\ \A k \in DOMAIN resolvableTypes :
              (\E n \in DOMAIN collection.Resolvers :
                   collection.Resolvers[n].TypeName = resolvableTypes[k].Resolver.Name)
              <=> (/\ Selected(k)
                   /\ \E i \in DOMAIN ResolveWalk :
                        /\ ResolveWalk[i].TypeName = resolvableTypes[k].TypeName
                        /\ ResolveWalk[i].TypePackage = resolvableTypes[k].TypePackage)

\* UserById was registered before SessionById; the first endpoint needs a
\* Session, the second a Session and a User: the manifest lists SessionById
\* first and each resolver once
C11_Witness ==
    /\ pc = "returned"
    /\ collection # Nil
    /\ CatalogNames = <<"UserById", "SessionById">>
    /\ Len(collection.Services) = 2
    /\ Len(collection.Services[1].Endpoints) = 1
    /\ Len(collection.Services[2].Endpoints) = 1
    /\ collection.Services[1].Endpoints[1].FuncName = "GetSession"
    /\ collection.Services[2].Endpoints[1].FuncName = "GetBoth"
    /\ Len(ResolveWalk) = 3
    /\ collection.Resolvers = <<[TypeName |-> "SessionById"], [TypeName |-> "UserById"]>>

(* C12. Fail-fast: an error of the catalog builder or of an endpoint's       *)
(* parameter resolution or output analysis is returned by AnalyzePackage as  *)
(* its next step, with no collection, whatever was analyzed before; once an  *)
(* error is there no declaration is analyzed and no service or endpoint is   *)
(* gathered any more; a collection is only returned without an error.        *)
C12_FailFast ==
    /\ [][pc = "failed" => pc' = "returned" /\ err' # NoError /\ collection' = Nil]_vars
    /\ [][err # NoError =>
              /\ pc' \in {"failed", "returned"}
              /\ UNCHANGED <<resolvableTypes, decl, inputParams, stack, endpoint,
                             service, endpoints, services, collection>>]_vars
    /\ [](/\ err # NoError => pc \in {"failed", "returned"} /\ collection = Nil
          /\ collection # Nil => pc = "returned" /\ err = NoError)

\* The second service's first endpoint was rejected after the first service
\* was analyzed with one endpoint: an error and no collection
C12_Witness ==
    /\ pc = "returned"
    /\ Len(services) = 1
    /\ Len(services[1].Endpoints) = 1
    /\ decl.Name = "GetHandle"
    /\ err = "analyzing service Service1: analyzing endpoint GetHandle: "
               \o "x: pointers of pointers are not supported"
    /\ collection = Nil

----------------------------------------------------------------------------
\* The declaration has the type name of a native parameter, at any depth
HasNativeType(d) ==
    \/ d.TypePackage = "net/http" /\ d.TypeName \in {"Request", "ResponseWriter"}
    \/ d.TypePackage = "context" /\ d.TypeName = "Context"

(* C21. Native short-circuit leaves the step list unchanged: resolveParam on *)
(* a *net/http.Request (depth 1), a net/http.ResponseWriter (depth 0) or a   *)
(* context.Context (depth 0) returns the fixed reference r, w or r.Context() *)
(* to the calling resolveParams, appends no step, starts no resolver         *)
(* expansion and reports no error; a declaration of these type names at any  *)
(* other pointer depth never gets a fixed reference: what was resolved for   *)
(* it is the identifier of a step of the list.                               *)
C21_NativeShortCircuit ==
    /\ [][Calling /\ IsNativeDecl(Current) =>
              /\ inputParams' = inputParams
              /\ pc' = pc
              /\ err' = err
              /\ Len(stack') = Len(stack)
              /\ stack'[Len(stack')].k = Top.k + 1
              /\ Returned = (CASE Current.TypeName = "Request" -> InputVar("r", 0)
                               [] Current.TypeName = "ResponseWriter" -> InputVar("w", 0)
                               [] Current.TypeName = "Context" -> InputVar("r.Context()", 0))]_vars
    /\ [](\A c \in CallSites :
            HasNativeType(c[1]) /\ ~IsNativeDecl(c[1]) =>
                /\ c[2] \notin NativeVars
                /\ StepsOf(c[2]) # {})

\* The endpoint (r *Request, q Request) without resolvers: r got
\* the fixed reference and no step, q claimed the payload
C21_Witness ==
    /\ pc = "done"
    /\ resolvableTypes = <<>>
    /\ decl.InputParams = <<RequestT("r", 1), RequestT("q", 0)>>
    /\ endpoint.InputVars = <<InputVar("r", 0), InputVar("param0", 0)>>
    /\ Len(endpoint.InputParams) = 1
    /\ endpoint.InputParams[1].ParamKind = KindPayloadParam

----------------------------------------------------------------------------
\* analyzeEndpoint is about to relocate the payload step and return
Relocating == pc = "resolveParams" /\ Len(stack) = 1 /\ Top.k > Len(Top.decls)

\* The list b is the list a with its step at position k moved to the end
MovedLast(a, b, k) ==
    /\ Len(b) = Len(a)
    /\ \A j \in 1..(k - 1) : b[j] = a[j]
    /\ \A j \in (k + 1)..Len(a) : b[j - 1] = a[j]
    /\ b[Len(b)] = a[k]

(* C22. Stable payload relocation: when analyzeEndpoint relocates the        *)
(* payload step, the new step list has the same number of steps, the payload *)
(* step is its last element with every field as before, all other steps keep *)
(* their relative order and every field, variable identifier and dependency  *)
(* list included; a list without a payload step is left unchanged.           *)
C22_StableRelocation ==
    [][Relocating =>
          IF PayloadSteps(inputParams) = {}
          THEN inputParams' = inputParams
          ELSE \A k \in PayloadSteps(inputParams) :
                   MovedLast(inputParams, inputParams', k)]_vars

\* The payload step param0 was created before the string and the convert step
\* of id: it is last, the other two kept their order
C22_Witness ==
    /\ pc = "done"
    /\ decl.InputParams = <<PayloadT("a", "app"), IntT("id", 0)>>
    /\ Len(endpoint.InputParams) = 3
    /\ endpoint.InputParams[1].VarName = "param1"
    /\ endpoint.InputParams[1].ParamKind = KindStringParam
    /\ endpoint.InputParams[2].VarName = "param2"
    /\ endpoint.InputParams[2].InputVars = <<InputVar("param1", 0)>>
    /\ endpoint.InputParams[3].VarName = "param0"
    /\ endpoint.InputParams[3].ParamKind = KindPayloadParam

----------------------------------------------------------------------------
\* No service and no endpoint has been entered
NothingAnalyzed ==
    /\ service = Nil
    /\ services = <<>>
    /\ endpoints = <<>>
    /\ endpoint = Nil
    /\ inputParams = <<>>
    /\ stack = <<>>
    /\ expanded = <<>>

(* C23. Catalog before endpoints: the catalog is built and resolver          *)
(* declarations are analyzed only while no service and no endpoint has been  *)
(* entered, and the catalog never changes afterwards; when a resolver is     *)
(* invalid the pass fails with the error naming that resolver and returns it *)
(* with no collection while still no service and no endpoint has been        *)
(* entered.                                                                  *)
C23_CatalogFirst ==
    /\ [][resolvableTypes' # resolvableTypes \/ (pc = "analyzeResolvers" /\ pc' = "failed") =>
              /\ pc = "analyzeResolvers"
              /\ NothingAnalyzed
              /\ NothingAnalyzed']_vars
    /\ [][pc = "analyzeResolvers" /\ pc' = "failed" =>
              /\ analyzeResolverError(decl') # NoError
              /\ err' = "analyzing resolver " \o decl'.Name \o ": "
                            \o analyzeResolverError(decl')]_vars
    /\ [](~NothingAnalyzed => pc # "analyzeResolvers")
    /\ [](service = Nil /\ err # NoError =>
              /\ NothingAnalyzed
              /\ collection = Nil
              /\ pc \in {"failed", "returned"})

\* The resolver Triple has three outputs: after UserById was accepted the pass
\* returned the signature error, no service was entered
C23_Witness ==
    /\ pc = "returned"
    /\ CatalogNames = <<"UserById">>
    /\ decl.Name = "Triple"
    /\ err = "analyzing resolver Triple: a resolver can only return 1 or 2 values: "
               \o "a value or a value and an error"
    /\ NothingAnalyzed
    /\ collection = Nil

----------------------------------------------------------------------------
\* The identifier param<k> of the step at the (zero-based) index k
ParamIdentifier(k) ==
    <<"param0", "param1", "param2", "param3", "param4", "param5", "param6", "param7",
      "param8", "param9", "param10", "param11">>[k + 1]

\* The steps of a list have pairwise distinct identifiers, param0 up to
\* param<n-1> for a list of n steps
IdentifiersOf(i) == {i[j].VarName : j \in DOMAIN i}

WellNamed(i) ==
    /\ \A j, k \in DOMAIN i : i[j].VarName = i[k].VarName => j = k
    /\ IdentifiersOf(i) = {ParamIdentifier(k) : k \in 0..(Len(i) - 1)}

(* C24. Unique variable identifiers: in every reachable state the steps of   *)
(* the step list under construction, and of every endpoint analyzed in the   *)
(* package, have pairwise distinct variable identifiers, param0 up to        *)
(* param<n-1>; while resolution runs the step at index k carries param<k>;   *)
(* every endpoint starts from an empty list, so its first step is param0     *)
(* whatever the endpoints before it held.                                    *)
C24_UniqueIdentifiers ==
    /\ [][pc = "analyzeService" /\ pc' = "resolveParams" => inputParams' = <<>>]_vars
    /\ [](/\ WellNamed(inputParams)
          /\ pc = "resolveParams" =>
                \A j \in DOMAIN inputParams :
                    inputParams[j].VarName = ParamIdentifier(j - 1)
          /\ endpoint # Nil => WellNamed(endpoint.InputParams)
          /\ \A n \in DOMAIN endpoints : WellNamed(endpoints[n].InputParams)
          /\ \A m \in DOMAIN services : \A n \in DOMAIN services[m].Endpoints :
                WellNamed(services[m].Endpoints[n].InputParams))

\* GetUser was analyzed with the steps param0 and param1; resolution of the
\* next endpoint, GetSession, has appended its first steps param0 and param1
C24_Witness ==
    /\ pc = "resolveParams"
    /\ Len(endpoints) = 1
    /\ endpoints[1].FuncName = "GetUser"
    /\ IdentifiersOf(endpoints[1].InputParams) = {"param0", "param1"}
    /\ decl.Name = "GetSession"
    /\ Len(inputParams) = 2
    /\ inputParams[1].VarName = "param0"
    /\ inputParams[2].VarName = "param1"

----------------------------------------------------------------------------
\* The variable references of a returned endpoint: its call-site references
\* and the dependencies of its steps
ReferencesOf(e) ==
    {e.InputVars[n] : n \in DOMAIN e.InputVars}
    \cup UNION {{e.InputParams[j].InputVars[n] : n \in DOMAIN e.InputParams[j].InputVars} :
                  j \in DOMAIN e.InputParams}

(* C25. No dangling references: in a returned endpoint every variable        *)
(* reference of InputVars and of every step's dependency list is one of the  *)
(* fixed native references r, w, r.Context() or carries the variable         *)
(* identifier of exactly one step of the endpoint's final step list.         *)
C25_NoDanglingReferences ==
    endpoint # Nil =>
        \A v \in ReferencesOf(endpoint) :
            \/ v.VarName \in {"r", "w", "r.Context()"}
            \/ Cardinality({j \in DOMAIN endpoint.InputParams :
                               endpoint.InputParams[j].VarName = v.VarName}) = 1

\* With the resolvers UserRef(id int) and IntOfRequest(r *Request) the endpoint
\* (v *User, r *Request) returned: User depends on the int step, the int step
\* on the native r, the call sites reference the User step and r
C25_Witness ==
    /\ pc = "done"
    /\ CatalogNames = <<"UserRef", "IntOfRequest">>
    /\ decl.InputParams = <<UserT("v", 1), RequestT("r", 1)>>
    /\ Len(endpoint.InputParams) = 2
    /\ endpoint.InputParams[1].InputVars = <<InputVar("r", 0)>>
    /\ endpoint.InputParams[2].InputVars = <<InputVar("param0", 0)>>
    /\ endpoint.InputVars = <<InputVar("param1", 0), InputVar("r", 0)>>

====
